---- MODULE Spec2Model ----
(***************************************************************************)
(* btfdump: the C header dumper (src/src/c_dumper.rs) over the BTF type    *)
(* graph (src/src/types.rs).                                               *)
(*                                                                         *)
(* dump_types is modelled as a state machine.  The two recursive passes,   *)
(* order_type and emit_type_fwds, run on an explicit call stack, one frame *)
(* per call and one step per entry or resumption of a frame, so that the   *)
(* DFS colours in the middle of a pass are states of the model.  The text  *)
(* emitters (emit_struct_def, emit_type_decl, ...) are operators that      *)
(* thread the resolver state and the text written so far.                  *)
(***************************************************************************)
EXTENDS Integers, Sequences, FiniteSets, TLC

VARIABLES
    btf,          \* Btf.types: the type graph, a function 0..type_cnt-1 -> node
    ptr_sz,       \* Btf.ptr_sz
    verbose,      \* CDumper.verbose
    filter,       \* the filter predicate of dump_types, as the set of ids it accepts
    order_state,  \* CDumper.state[id].order_state
    emit_state,   \* CDumper.state[id].emit_state
    fwd_emitted,  \* CDumper.state[id].fwd_emitted
    state_name,   \* CDumper.state[id].name
    names,        \* CDumper.names: (NamedKind, name) -> version
    order,        \* the local `order` of dump_types
    out,          \* what was written to stdout, one record per top-level write
    stack,        \* the call stack of order_type / emit_type_fwds frames
    ret,          \* the value returned by the call that returned last
    pc,           \* where dump_types is
    loop_id,      \* the index of the loop dump_types is in
    result        \* how dump_types ended

vars == <<btf, ptr_sz, verbose, filter, order_state, emit_state, fwd_emitted,
          state_name, names, order, out, stack, ret, pc, loop_id, result>>

-----------------------------------------------------------------------------
(* Bounds of the model.                                                    *)

\* The depth of recursion at which the process runs out of stack.
MaxDepth == 12

-----------------------------------------------------------------------------
(* The type graph: BtfType and its variants.                               *)

NoNode ==
    [kind |-> "Void", name |-> "", type_id |-> 0, nelems |-> 0, sz |-> 0,
     bits |-> 0, members |-> <<>>, values |-> <<>>, params |-> <<>>,
     fwd_kind |-> "struct"]

BtfVoid == NoNode
BtfInt(n, b) == [NoNode EXCEPT !.kind = "Int", !.name = n, !.bits = b]
BtfPtr(t) == [NoNode EXCEPT !.kind = "Ptr", !.type_id = t]
BtfArray(t, n) == [NoNode EXCEPT !.kind = "Array", !.type_id = t, !.nelems = n]
BtfStruct(n, s, ms) == [NoNode EXCEPT !.kind = "Struct", !.name = n, !.sz = s, !.members = ms]
BtfUnion(n, s, ms) == [NoNode EXCEPT !.kind = "Union", !.name = n, !.sz = s, !.members = ms]
BtfEnum(n, b, vs) == [NoNode EXCEPT !.kind = "Enum", !.name = n, !.bits = b, !.values = vs]
BtfFwd(n, k) == [NoNode EXCEPT !.kind = "Fwd", !.name = n, !.fwd_kind = k]
BtfTypedef(n, t) == [NoNode EXCEPT !.kind = "Typedef", !.name = n, !.type_id = t]
BtfVolatile(t) == [NoNode EXCEPT !.kind = "Volatile", !.type_id = t]
BtfConst(t) == [NoNode EXCEPT !.kind = "Const", !.type_id = t]
BtfRestrict(t) == [NoNode EXCEPT !.kind = "Restrict", !.type_id = t]
BtfFunc(n, t) == [NoNode EXCEPT !.kind = "Func", !.name = n, !.type_id = t]
BtfFuncProto(r, ps) == [NoNode EXCEPT !.kind = "FuncProto", !.type_id = r, !.params = ps]
BtfVar(n, t) == [NoNode EXCEPT !.kind = "Var", !.name = n, !.type_id = t]
BtfDatasec(n, s) == [NoNode EXCEPT !.kind = "Datasec", !.name = n, !.sz = s]

BtfMember(n, t, off, bsz) == [name |-> n, type_id |-> t, bit_offset |-> off, bit_size |-> bsz]
BtfFuncParam(n, t) == [name |-> n, type_id |-> t]
BtfEnumValue(n, v) == [name |-> n, value |-> v]

type_by_id(id) == btf[id]
type_cnt == Cardinality(DOMAIN btf)

Min(a, b) == IF a < b THEN a ELSE b
Max(a, b) == IF a > b THEN a ELSE b

\* The value a recursion that never ends stands for.
Diverged == -1

RECURSIVE size_of_rec(_, _)
size_of_rec(type_id, fuel) ==
    LET t == type_by_id(type_id)
        sub == size_of_rec(t.type_id, fuel - 1)
    IN  IF fuel = 0 THEN Diverged
        ELSE CASE t.kind = "Void" -> 0
               [] t.kind = "Int" -> (t.bits + 7) \div 8
               [] t.kind \in {"Volatile", "Const", "Restrict", "Typedef"} -> sub
               [] t.kind = "Ptr" -> ptr_sz
               [] t.kind = "Array" -> IF sub = Diverged THEN Diverged ELSE t.nelems * sub
               [] t.kind = "FuncProto" -> 0
               [] t.kind \in {"Struct", "Union"} -> t.sz
               [] t.kind = "Enum" -> (t.bits + 7) \div 8
               [] t.kind \in {"Fwd", "Func", "Var"} -> 0
               [] t.kind = "Datasec" -> t.sz

get_size_of(type_id) == size_of_rec(type_id, MaxDepth)

RECURSIVE align_of_rec(_, _)
RECURSIVE align_of_members(_, _, _, _)
align_of_members(ms, i, align, fuel) ==
    IF i > Len(ms) THEN align
    ELSE LET a == align_of_rec(ms[i].type_id, fuel)
         IN  IF a = Diverged THEN Diverged
             ELSE align_of_members(ms, i + 1, Max(align, a), fuel)

align_of_rec(type_id, fuel) ==
    LET t == type_by_id(type_id)
    IN  IF fuel = 0 THEN Diverged
        ELSE CASE t.kind = "Void" -> 0
               [] t.kind = "Int" -> Min(ptr_sz, (t.bits + 7) \div 8)
               [] t.kind \in {"Volatile", "Const", "Restrict", "Array", "Typedef"} ->
                    align_of_rec(t.type_id, fuel - 1)
               [] t.kind = "Ptr" -> ptr_sz
               [] t.kind = "FuncProto" -> 0
               [] t.kind \in {"Struct", "Union"} -> align_of_members(t.members, 1, 1, fuel - 1)
               [] t.kind = "Enum" -> Min(ptr_sz, (t.bits + 7) \div 8)
               [] t.kind \in {"Fwd", "Func", "Var", "Datasec"} -> 0

get_align_of(type_id) == align_of_rec(type_id, MaxDepth)

ANON_NAME == "<anon>"
disp_name(s) == IF s = "" THEN ANON_NAME ELSE s

\* fmt::Display of the kinds a declarator chain can print in-band.
DispType(id) ==
    LET t == type_by_id(id)
    IN  CASE t.kind = "Func" ->
               "<FUNC> '" \o disp_name(t.name) \o "' --> [" \o ToString(t.type_id) \o "]"
          [] t.kind = "Var" ->
               "<VAR> '" \o disp_name(t.name) \o "' kind:static --> ["
                   \o ToString(t.type_id) \o "]"
          [] t.kind = "Datasec" ->
               "<DATASEC> '" \o disp_name(t.name) \o "' sz:" \o ToString(t.sz) \o " n:0"
          [] OTHER -> "<" \o t.kind \o ">"

-----------------------------------------------------------------------------
(* The name resolver and the text emitters.  Each takes and returns a      *)
(* writer record w: the resolver state (state_name, names), the text       *)
(* printed so far by the top-level call (txt), the value the call returns  *)
(* (res), the nesting of emit_type_decl calls (depth) and whether the      *)
(* process has died on the way (fault).                                    *)

Writer(sn, ns) ==
    [state_name |-> sn, names |-> ns, txt |-> "", res |-> "", depth |-> 0,
     fault |-> "none"]

print(w, s) == IF w.fault # "none" THEN w ELSE [w EXCEPT !.txt = @ \o s]

\* print!("{}{}{}", pre, name, post) for the name a resolver has just returned
print_res(w, pre, post) == print(w, pre \o w.res \o post)

\* print!("{}{}{}{}", kw, sep(&name), name, post)
print_tag(w, kw, post) == print(w, kw \o (IF w.res = "" THEN "" ELSE " ") \o w.res \o post)

set_res(w, r) == [w EXCEPT !.res = r]

Fault(w, f) == IF w.fault # "none" THEN w ELSE [w EXCEPT !.fault = f]

NAMES_BLACKLIST == <<"__builtin_va_list">>

\* Regex::is_match of a pattern without metacharacters: a substring search.
Contains(s, p) ==
    \E i \in 1..(Len(s) - Len(p) + 1) : SubSeq(s, i, i + Len(p) - 1) = p

is_match(nm) == \E k \in 1..Len(NAMES_BLACKLIST) : Contains(nm, NAMES_BLACKLIST[k])

EMPTY == ""
SPACE == " "
PREFIXES ==
    <<"", "\t", "\t\t", "\t\t\t", "\t\t\t\t", "\t\t\t\t\t", "\t\t\t\t\t\t",
      "\t\t\t\t\t\t\t", "\t\t\t\t\t\t\t\t", "\t\t\t\t\t\t\t\t\t",
      "\t\t\t\t\t\t\t\t\t\t", "\t\t\t\t\t\t\t\t\t\t\t",
      "\t\t\t\t\t\t\t\t\t\t\t\t">>

sep(nm) == IF nm = "" THEN EMPTY ELSE SPACE

pfx(lvl) == IF lvl >= Len(PREFIXES) THEN PREFIXES[Len(PREFIXES)] ELSE PREFIXES[lvl + 1]

\* A variant of BumpVersion that starts every count again.
BumpVersionReset(w, key) ==
    [w EXCEPT !.names = IF key \in DOMAIN @ THEN [@ EXCEPT ![key] = 1]
                        ELSE @ @@ (key :> 1)]

\* let version = names.entry(key).or_insert(0); *version += 1
BumpVersion(w, key) ==
    [w EXCEPT !.names = IF key \in DOMAIN @ THEN [@ EXCEPT ![key] = @ + 1]
                        ELSE @ @@ (key :> 1)]

\* lines 870-874, after the version of (kind, name) has been bumped
set_versioned_name(w, key, id) ==
    IF w.names[key] = 1
    THEN [w EXCEPT !.state_name[id] = key[2], !.res = key[2]]
    ELSE [w EXCEPT !.state_name[id] = key[2] \o "__" \o ToString(w.names[key]),
                   !.res = key[2] \o "__" \o ToString(w.names[key])]

\* A variant of resolve_kind_name that forgets the name it has given.
resolve_kind_name_fresh(w, kind, id, nm) ==
    IF nm = "" THEN set_res(w, EMPTY)
    ELSE set_versioned_name(BumpVersion(w, <<kind, nm>>), <<kind, nm>>, id)

resolve_kind_name(w, kind, id, nm) ==
    IF nm = "" THEN set_res(w, EMPTY)
    ELSE IF w.state_name[id] = ""
         THEN set_versioned_name(BumpVersion(w, <<kind, nm>>), <<kind, nm>>, id)
         ELSE set_res(w, w.state_name[id])

\* The NamedKind resolve_name passes for a type of kind k.
NamedKind(k) ==
    CASE k \in {"Struct", "Union", "Enum", "Fwd"} -> "Composite"
      [] k = "Typedef" -> "Typedef"
      [] k = "Func" -> "Func"
      [] OTHER -> "None"

resolve_name(w, id) ==
    IF NamedKind(type_by_id(id).kind) = "None" THEN set_res(w, EMPTY)
    ELSE resolve_kind_name(w, NamedKind(type_by_id(id).kind), id, type_by_id(id).name)

\* A variant of enum_val_name that numbers the enumerators of every enum.
enum_val_name_numbered(w, id, t, nm) ==
    IF w.names[<<"Typedef", nm>>] = 1 THEN set_res(w, nm)
    ELSE set_res(w, nm \o "__" \o ToString(w.names[<<"Typedef", nm>>]))

\* lines 883-890, after the version of (Typedef, name) has been bumped
enum_val_name(w, id, t, nm) ==
    IF w.names[<<"Typedef", nm>>] = 1 THEN set_res(w, nm)
    ELSE IF t.name # "" THEN [resolve_name(w, id) EXCEPT !.res = nm \o "__" \o @]
    ELSE set_res(w, nm \o "__" \o ToString(w.names[<<"Typedef", nm>>]))

resolve_enum_val_name(w, id, t, nm) ==
    enum_val_name(BumpVersion(w, <<"Typedef", nm>>), id, t, nm)

\* A variant of chip_away_bits that always takes a whole chunk.
chip_away_bits_whole(total, at_most) == at_most

chip_away_bits(total, at_most) ==
    IF total % at_most = 0 THEN at_most ELSE total % at_most

\* x % (align * k) # 0 as is_struct_packed computes it: the remainder is
\* "zero" or "nonzero", or the computation does not come back.
rem_by_align(x, align, k) ==
    IF align = Diverged THEN "diverged"
    ELSE IF align * k = 0 THEN "div_by_zero"
    ELSE IF x % (align * k) # 0 THEN "nonzero"
    ELSE "zero"

\* `if <rem> != 0 { return true }`, and otherwise the rest of is_struct_packed
packed_or(rem, rest) ==
    CASE rem = "zero" -> rest
      [] rem = "nonzero" -> [fault |-> "none", val |-> TRUE]
      [] OTHER -> [fault |-> rem, val |-> FALSE]

RECURSIVE is_struct_packed_loop(_, _)
is_struct_packed_loop(t, i) ==
    IF i > Len(t.members) THEN [fault |-> "none", val |-> FALSE]
    ELSE IF t.members[i].bit_size # 0 THEN is_struct_packed_loop(t, i + 1)
    ELSE packed_or(rem_by_align(t.members[i].bit_offset,
                                get_align_of(t.members[i].type_id), 8),
                   is_struct_packed_loop(t, i + 1))

is_struct_packed(id, t) ==
    packed_or(rem_by_align(t.sz, get_align_of(id), 1), is_struct_packed_loop(t, 1))

\* A variant of pad_of that takes the widest type that fits into the gap.
pad_of_widest_fit(bit_diff, ptr_sz_bits) ==
    IF ptr_sz_bits > 32 /\ bit_diff >= ptr_sz_bits
    THEN <<"long", chip_away_bits(bit_diff, ptr_sz_bits)>>
    ELSE IF bit_diff >= 32 THEN <<"int", chip_away_bits(bit_diff, 32)>>
    ELSE IF bit_diff >= 16 THEN <<"short", chip_away_bits(bit_diff, 16)>>
    ELSE <<"char", chip_away_bits(bit_diff, 8)>>

\* lines 541-549: <<pad_type, pad_bits>>
pad_of(bit_diff, ptr_sz_bits) ==
    IF ptr_sz_bits > 32 /\ bit_diff > 32
    THEN <<"long", chip_away_bits(bit_diff, ptr_sz_bits)>>
    ELSE IF bit_diff > 16 THEN <<"int", chip_away_bits(bit_diff, 32)>>
    ELSE IF bit_diff > 8 THEN <<"short", chip_away_bits(bit_diff, 16)>>
    ELSE <<"char", chip_away_bits(bit_diff, 8)>>

\* lines 550-551
RECURSIVE emit_bit_padding_loop(_, _, _, _)
emit_pad(w, pad, bit_diff, ptr_sz_bits, lvl) ==
    emit_bit_padding_loop(
        print(w, "\n" \o pfx(lvl) \o pad[1] \o ": " \o ToString(pad[2]) \o ";"),
        bit_diff - pad[2], ptr_sz_bits, lvl)

emit_bit_padding_loop(w, bit_diff, ptr_sz_bits, lvl) ==
    IF ~(bit_diff > 0) THEN w
    ELSE emit_pad(w, pad_of(bit_diff, ptr_sz_bits), bit_diff, ptr_sz_bits, lvl)

\* lines 535-552, for the gap and the alignment computed above them
emit_gap(w, bit_diff, align, m, lvl) ==
    IF align = Diverged THEN Fault(w, "diverged")
    ELSE IF m.bit_size = 0 /\ bit_diff < align * 8 THEN w
    ELSE emit_bit_padding_loop(w, bit_diff, ptr_sz * 8, lvl)

emit_bit_padding(w, offset, m, packed, lvl) ==
    IF offset >= m.bit_offset THEN w
    ELSE emit_gap(w, m.bit_offset - offset,
                  IF packed THEN 1 ELSE get_align_of(m.type_id), m, lvl)

emit_name(w, fname, last_was_ptr) ==
    IF last_was_ptr THEN print(w, fname) ELSE print(w, sep(fname) \o fname)

\* The keyword emit_mods prints for a qualifier, "" for any other kind.
mod_text(k) ==
    CASE k = "Volatile" -> "volatile"
      [] k = "Const" -> "const"
      [] k = "Restrict" -> "restrict"
      [] OTHER -> ""

\* Returns the writer and what is left of the chain.
RECURSIVE emit_mods(_, _)
emit_mods(w, chain) ==
    IF chain = <<>> THEN [w |-> w, chain |-> chain]
    ELSE IF mod_text(type_by_id(chain[Len(chain)]).kind) = ""
    THEN [w |-> w, chain |-> chain]
    ELSE emit_mods(print(w, mod_text(type_by_id(chain[Len(chain)]).kind) \o " "),
                   SubSeq(chain, 1, Len(chain) - 1))

\* emit_type_chain, lines 754-762: the qualifiers on top of the chain are
\* dropped.  Returns the writer and what is left of the chain.
RECURSIVE skip_mods(_, _)
skip_mods(w, chain) ==
    IF chain = <<>> THEN [w |-> w, chain |-> chain]
    ELSE IF mod_text(type_by_id(chain[Len(chain)]).kind) = ""
    THEN [w |-> w, chain |-> chain]
    ELSE skip_mods(w, SubSeq(chain, 1, Len(chain) - 1))

emit_struct_fwd(w, id, t) ==
    IF is_match(t.name) THEN set_res(w, FALSE)
    ELSE set_res(print_res(resolve_name(w, id), "struct ", ""), TRUE)

emit_union_fwd(w, id, t) ==
    IF is_match(t.name) THEN set_res(w, FALSE)
    ELSE set_res(print_res(resolve_name(w, id), "union ", ""), TRUE)

emit_fwd_def(w, id, t) ==
    IF is_match(t.name) THEN w
    ELSE print_res(resolve_name(w, id),
                   IF t.fwd_kind = "struct" THEN "struct " ELSE "union ", "")

RECURSIVE emit_enum_def_loop(_, _, _, _, _)
emit_enum_def_loop(w, id, t, i, lvl) ==
    IF i > Len(t.values) THEN w
    ELSE emit_enum_def_loop(
             print_res(resolve_enum_val_name(w, id, t, t.values[i].name),
                       "\n" \o pfx(lvl + 1),
                       " = " \o ToString(t.values[i].value) \o ","),
             id, t, i + 1, lvl)

emit_enum_def(w, id, t, lvl) ==
    IF is_match(t.name) THEN w
    ELSE IF t.values = <<>> THEN print_tag(resolve_name(w, id), "enum", "")
    ELSE print(emit_enum_def_loop(print_tag(resolve_name(w, id), "enum", " {"),
                                  id, t, 1, lvl),
               "\n" \o pfx(lvl) \o "}")

RECURSIVE emit_struct_def(_, _, _, _)
RECURSIVE emit_struct_def_loop(_, _, _, _, _, _)
RECURSIVE emit_union_def(_, _, _, _)
RECURSIVE emit_union_def_loop(_, _, _, _)
RECURSIVE emit_type_decl(_, _, _, _)
RECURSIVE emit_type_decl_loop(_, _, _, _, _)
RECURSIVE emit_type_chain(_, _, _, _)
RECURSIVE emit_type_chain_loop(_, _, _, _, _)
RECURSIVE emit_func_params(_, _, _, _)

\* lines 508-513: what is printed after a member's declarator
emit_member_bits(w, m) ==
    IF m.bit_size = 0
    THEN (IF get_size_of(m.type_id) = Diverged THEN Fault(w, "diverged") ELSE w)
    ELSE print(w, ": " \o ToString(m.bit_size))

\* lines 508-513: the offset after a member
member_end(m) ==
    IF m.bit_size = 0 THEN m.bit_offset + get_size_of(m.type_id) * 8
    ELSE m.bit_offset + m.bit_size

\* lines 503-514: one iteration of the loop over the members
emit_struct_member(w, m, offset, packed, lvl) ==
    print(emit_member_bits(
              emit_type_decl(print(emit_bit_padding(w, offset, m, packed, lvl + 1),
                                   "\n" \o pfx(lvl + 1)),
                             m.type_id, m.name, lvl + 1),
              m),
          ";")

emit_struct_def_loop(w, t, i, offset, packed, lvl) ==
    IF i > Len(t.members) \/ w.fault # "none" THEN w
    ELSE emit_struct_def_loop(emit_struct_member(w, t.members[i], offset, packed, lvl),
                              t, i + 1, member_end(t.members[i]), packed, lvl)

\* lines 516-519, 601-604: the closing brace
emit_close(w, t, lvl) ==
    print(IF t.members # <<>> THEN print(w, "\n") ELSE w, pfx(lvl) \o "}")

\* lines 499-522, for the value of `packed` computed above them
emit_struct_body(w, id, t, lvl, packed) ==
    IF packed.fault # "none" THEN Fault(w, packed.fault)
    ELSE print(emit_close(emit_struct_def_loop(
                              print_tag(resolve_name(w, id), "struct", " {"),
                              t, 1, 0, packed.val, lvl),
                          t, lvl),
               IF packed.val THEN " __attribute__((packed))" ELSE "")

emit_struct_def(w, id, t, lvl) ==
    IF is_match(t.name) THEN w
    ELSE emit_struct_body(w, id, t, lvl, is_struct_packed(id, t))

\* lines 594-599: one iteration of the loop over the members
emit_union_member(w, m, lvl) ==
    print(emit_type_decl(print(w, "\n" \o pfx(lvl + 1)), m.type_id, m.name, lvl + 1),
          (IF m.bit_size > 0 THEN ": " \o ToString(m.bit_size) ELSE "") \o ";")

emit_union_def_loop(w, t, i, lvl) ==
    IF i > Len(t.members) \/ w.fault # "none" THEN w
    ELSE emit_union_def_loop(emit_union_member(w, t.members[i], lvl), t, i + 1, lvl)

emit_union_def(w, id, t, lvl) ==
    IF is_match(t.name) THEN w
    ELSE emit_close(emit_union_def_loop(print_tag(resolve_name(w, id), "union", " {"),
                                        t, 1, lvl),
                    t, lvl)

\* lines 641-642, for the name resolved above them
emit_typedef_decl(w, t, lvl) ==
    emit_type_decl(print(w, "typedef "), t.type_id, w.res, lvl)

emit_typedef_def(w, id, t, lvl) ==
    IF is_match(t.name) THEN w ELSE emit_typedef_decl(resolve_name(w, id), t, lvl)

\* for parent_id in chain.iter().rev() { print!("[{}] --> ", parent_id) }
RECURSIVE print_chain_rev(_, _)
print_chain_rev(w, chain) ==
    IF chain = <<>> THEN w
    ELSE print_chain_rev(print(w, "[" \o ToString(chain[Len(chain)]) \o "] --> "),
                         SubSeq(chain, 1, Len(chain) - 1))

\* lines 659-680: chain holds the ids pushed so far, id is the next one.
emit_type_decl_loop(w, id, chain, fname, lvl) ==
    IF Len(chain) >= MaxDepth THEN Fault(w, "diverged")
    ELSE CASE type_by_id(id).kind
                \in {"Ptr", "Const", "Volatile", "Restrict", "Array", "FuncProto"} ->
                emit_type_decl_loop(w, type_by_id(id).type_id, Append(chain, id), fname, lvl)
           [] type_by_id(id).kind \in {"Var", "Datasec", "Func"} ->
                print(print_chain_rev(print(w, "!@#! UNEXPECT TYPE DECL CHAIN "), chain),
                      "[" \o ToString(id) \o "] " \o DispType(id))
           [] OTHER -> emit_type_chain(w, Append(chain, id), fname, lvl)

\* The writer on entry to and on return from emit_type_decl.
enter_decl(w) == [w EXCEPT !.depth = @ + 1]
leave_decl(w) == [w EXCEPT !.depth = @ - 1]

emit_type_decl(w, id, fname, lvl) ==
    IF w.fault # "none" THEN w
    ELSE IF w.depth >= MaxDepth THEN Fault(w, "diverged")
    ELSE leave_decl(emit_type_decl_loop(enter_decl(w), id, <<>>, fname, lvl))

\* lines 790-798: the parameter of index idx
emit_func_param(w, t, idx, lvl) ==
    IF idx = Len(t.params) - 1 /\ t.params[Len(t.params)].type_id = 0
    THEN print(w, "...")
    ELSE emit_type_decl(w, t.params[idx + 1].type_id, t.params[idx + 1].name, lvl)

emit_func_params(w, t, idx, lvl) ==
    IF idx >= Len(t.params) \/ w.fault # "none" THEN w
    ELSE emit_func_params(
             emit_func_param(IF idx > 0 THEN print(w, ", ") ELSE w, t, idx, lvl),
             t, idx + 1, lvl)

\* lines 690-731: what is printed for a type that ends a chain, after its
\* qualifiers
emit_base(w, id, t, lvl) ==
    CASE t.kind = "Void" -> print(w, "void")
      [] t.kind = "Int" -> print(w, t.name)
      [] t.kind = "Struct" ->
           IF t.name = "" THEN emit_struct_def(w, id, t, lvl) ELSE emit_struct_fwd(w, id, t)
      [] t.kind = "Union" ->
           IF t.name = "" THEN emit_union_def(w, id, t, lvl) ELSE emit_union_fwd(w, id, t)
      [] t.kind = "Enum" ->
           IF t.name = "" THEN emit_enum_def(w, id, t, lvl)
           ELSE print_res(resolve_name(w, id), "enum ", "")
      [] t.kind = "Fwd" -> emit_fwd_def(w, id, t)
      [] t.kind = "Typedef" -> print_res(resolve_name(w, id), "", "")

\* lines 732-747, 805-811: what is printed for a link of a chain
link_text(id, t, last_was_ptr) ==
    CASE t.kind = "Ptr" -> IF last_was_ptr THEN "*" ELSE " *"
      [] t.kind = "Volatile" -> " volatile"
      [] t.kind = "Const" -> " const"
      [] t.kind = "Restrict" -> " restrict"
      [] OTHER -> "!@#! UNEXPECT TYPE DECL id: " \o ToString(id) \o ", type: "
                      \o DispType(id)

\* lines 763-769, 775-781: the declarator an array or a function type wraps;
\* mc is the writer and the chain left
emit_inner(mc, fname, lvl, last_was_ptr) ==
    IF mc.chain = <<>> THEN emit_name(mc.w, fname, last_was_ptr)
    ELSE print(emit_type_chain(print(mc.w, " ("), mc.chain, fname, lvl), ")")

\* lines 782-802: the parameter list
emit_param_list(w, t, lvl) ==
    print(IF Len(t.params) # 1 \/ t.params[1].type_id # 0
          THEN emit_func_params(print(w, "("), t, 0, lvl)
          ELSE print(w, "("),
          ")")

\* The rest of the loop after a type that ends a chain; mc is the writer and
\* the chain emit_mods has left.
emit_base_rest(mc, id, t, fname, lvl) ==
    emit_type_chain_loop(emit_base(mc.w, id, t, lvl), mc.chain, fname, lvl, FALSE)

\* One iteration of the loop of emit_type_chain: id has been popped, rest is
\* the chain left.
emit_chain_elem(w, id, t, rest, fname, lvl, last_was_ptr) ==
    CASE t.kind \in {"Void", "Int", "Struct", "Union", "Enum", "Fwd", "Typedef"} ->
           emit_base_rest(emit_mods(w, rest), id, t, fname, lvl)
      [] t.kind = "Array" ->
           print(emit_inner(skip_mods(w, rest), fname, lvl, last_was_ptr),
                 "[" \o ToString(t.nelems) \o "]")
      [] t.kind = "FuncProto" ->
           emit_param_list(emit_inner(emit_mods(w, rest), fname, lvl, last_was_ptr),
                           t, lvl)
      [] OTHER ->
           emit_type_chain_loop(print(w, link_text(id, t, last_was_ptr)), rest, fname,
                                lvl, t.kind = "Ptr")

emit_type_chain_loop(w, chain, fname, lvl, last_was_ptr) ==
    IF w.fault # "none" THEN w
    ELSE IF chain = <<>> THEN emit_name(w, fname, last_was_ptr)
    ELSE emit_chain_elem(w, chain[Len(chain)], type_by_id(chain[Len(chain)]),
                         SubSeq(chain, 1, Len(chain) - 1), fname, lvl, last_was_ptr)

emit_type_chain(w, chain, fname, lvl) == emit_type_chain_loop(w, chain, fname, lvl, TRUE)

-----------------------------------------------------------------------------
(* The dumper's mutable state as one record, and the call stack.           *)

\* Everything a step of dump_types can change.
Machine ==
    [order_state |-> order_state, emit_state |-> emit_state,
     fwd_emitted |-> fwd_emitted, state_name |-> state_name, names |-> names,
     order |-> order, out |-> out, stack |-> stack, ret |-> ret,
     result |-> result]

Frame(fn, id, flag, cont_id) ==
    [fn |-> fn, id |-> id, flag |-> flag, cont_id |-> cont_id, pc |-> "start",
     idx |-> 1, acc |-> FALSE]

Top(m) == m.stack[Len(m.stack)]

\* `return v` / `return Ok(v)`: the frame is popped, the caller sees v.
Return(m, v) ==
    IF m.result # "running" THEN m
    ELSE [m EXCEPT !.stack = SubSeq(@, 1, Len(@) - 1), !.ret = v]

\* A call from the top frame, which will resume at pc.  A call deeper than
\* the stack allows kills the process.
Call(m, pc_after, child) ==
    IF m.result # "running" THEN m
    ELSE IF Len(m.stack) >= MaxDepth
    THEN [m EXCEPT !.stack = <<>>, !.result = "stack_overflow"]
    ELSE [m EXCEPT !.stack = Append([@ EXCEPT ![Len(@)].pc = pc_after], child)]

\* `return btf_error(..)`, and the `?` of every caller up to dump_types.
Fail(m, err) ==
    IF m.result # "running" THEN m ELSE [m EXCEPT !.stack = <<>>, !.result = err]

is_def(id) == type_by_id(id).kind \in {"Struct", "Union", "Enum", "Fwd", "Typedef"}

is_named_def(id) == is_def(id) /\ type_by_id(id).name # ""

-----------------------------------------------------------------------------
(* order_type (c_dumper.rs 106-211).                                       *)

\* A variant of is_ptr_broken_cycle that lets a pointer break a cycle on an
\* anonymous composite too.
is_ptr_broken_cycle_any(t, has_ptr) ==
    t.kind \in {"Struct", "Union"} /\ has_ptr

\* line 127-128: a cycle closed on a composite that is being ordered is
\* broken by a pointer only if the composite has a tag.
is_ptr_broken_cycle(t, has_ptr) ==
    t.kind \in {"Struct", "Union"} /\ has_ptr /\ t.name # ""

\* A variant of is_strong_composite that orders every struct/union it meets.
is_strong_composite_always(t, has_ptr) == TRUE

\* line 160, 178: a struct/union is ordered here if it is embedded or anonymous.
is_strong_composite(t, has_ptr) == ~has_ptr \/ t.name = ""

\* A variant of is_strong_typedef that forgets the typedefs that are not
\* behind a pointer.
is_strong_typedef_target_only(has_ptr, is_strong) == is_strong

\* line 202: a typedef is ordered here unless it is only pointed to.
is_strong_typedef(has_ptr, is_strong) == ~has_ptr \/ is_strong

\* A variant of ptr_has_ptr that passes on the has_ptr it was given.
ptr_has_ptr_kept(has_ptr) == has_ptr

\* line 146: the has_ptr a pointer passes to its target.
ptr_has_ptr(has_ptr) == TRUE

\* A variant of push_ordered that marks the type emitted as well.
push_ordered_emitted(m, id) ==
    Return([m EXCEPT !.order = Append(@, id), !.order_state[id] = "Ordered",
                     !.emit_state[id] = "Emitted"], TRUE)

\* order.push(id); self.set_order_state(id, OrderState::Ordered); return Ok(true)
push_ordered(m, id) ==
    Return([m EXCEPT !.order = Append(@, id), !.order_state[id] = "Ordered"], TRUE)

\* The top frame is an order_type call that has not started.
order_type(m) ==
    LET f == Top(m)
        id == f.id
        has_ptr == f.flag
        t == type_by_id(id)
        child(tid, hp) == Frame("order_type", tid, hp, 0)
    IN  CASE m.order_state[id] = "Ordering" ->
               IF is_ptr_broken_cycle(t, has_ptr) THEN Return(m, FALSE)
               ELSE Fail(m, "unsatisfiable_cycle")
          [] m.order_state[id] = "Ordered" -> Return(m, TRUE)
          [] OTHER ->
               CASE t.kind \in {"Func", "Var", "Datasec", "Void", "Int"} -> Return(m, FALSE)
                 [] t.kind \in {"Volatile", "Const", "Restrict", "Array"} ->
                      Call(m, "tail", child(t.type_id, has_ptr))
                 [] t.kind = "Ptr" ->
                      Call(m, "tail", child(t.type_id, ptr_has_ptr(has_ptr)))
                 [] t.kind = "FuncProto" ->
                      Call(m, "res", child(t.type_id, has_ptr))
                 [] t.kind \in {"Struct", "Union"} ->
                      IF is_strong_composite(t, has_ptr)
                      THEN LET m1 == [m EXCEPT !.order_state[id] = "Ordering"]
                           IN  IF t.members # <<>>
                               THEN Call([m1 EXCEPT !.stack[Len(m.stack)].idx = 2],
                                         "members", child(t.members[1].type_id, FALSE))
                               ELSE IF t.name # "" THEN push_ordered(m1, id)
                               ELSE Return([m1 EXCEPT !.order_state[id] = "Ordered"], TRUE)
                      ELSE Return(m, FALSE)
                 [] t.kind \in {"Enum", "Fwd"} -> push_ordered(m, id)
                 [] t.kind = "Typedef" ->
                      Call(m, "target", child(t.type_id, has_ptr))

\* The top frame is an order_type call whose callee has just returned m.ret.
order_type_resume(m) ==
    LET f == Top(m)
        id == f.id
        has_ptr == f.flag
        t == type_by_id(id)
        child(tid, hp) == Frame("order_type", tid, hp, 0)
        \* FuncProto: is_strong so far
        is_strong == IF f.pc = "res" THEN m.ret ELSE (f.acc \/ m.ret)
    IN  CASE f.pc = "tail" -> Return(m, m.ret)
          [] f.pc \in {"res", "params"} ->
               IF f.idx <= Len(t.params)
               THEN Call([m EXCEPT !.stack[Len(m.stack)].idx = f.idx + 1,
                                   !.stack[Len(m.stack)].acc = is_strong],
                         "params", child(t.params[f.idx].type_id, has_ptr))
               ELSE Return(m, is_strong)
          [] f.pc = "members" ->
               IF f.idx <= Len(t.members)
               THEN Call([m EXCEPT !.stack[Len(m.stack)].idx = f.idx + 1],
                         "members", child(t.members[f.idx].type_id, FALSE))
               ELSE IF t.name # "" THEN push_ordered(m, id)
               ELSE Return([m EXCEPT !.order_state[id] = "Ordered"], TRUE)
          [] f.pc = "target" ->
               IF is_strong_typedef(has_ptr, m.ret) THEN push_ordered(m, id)
               ELSE Return(m, FALSE)

-----------------------------------------------------------------------------
(* Writing to stdout.  out holds one record per top-level write: the place *)
(* that wrote it (site), the type it is about (id) and the text.           *)

DefSites == {"struct_def", "union_def", "enum_def", "fwd_def", "typedef_def"}

Write(o, site, id, text) ==
    IF text = "" THEN o ELSE Append(o, [site |-> site, id |-> id, text |-> text])

\* The text an emitter printed reaches stdout and its resolver state the
\* dumper; an emitter that died takes the process with it.
Commit(m, w, site, id) ==
    IF m.result # "running" THEN m
    ELSE LET m1 == [m EXCEPT !.state_name = w.state_name, !.names = w.names,
                             !.out = Write(@, site, id, w.txt)]
         IN  IF w.fault # "none" THEN [m1 EXCEPT !.stack = <<>>, !.result = w.fault]
             ELSE m1

\* println!(";\n")
Term(m, id) ==
    IF m.result # "running" THEN m ELSE [m EXCEPT !.out = Write(@, "term", id, ";\n\n")]

\* println!("\n")
Newlines(m, id) ==
    IF m.result # "running" THEN m ELSE [m EXCEPT !.out = Write(@, "nl", id, "\n\n")]

\* The traces of verbose mode that go to stdout.  The type's Display is cut
\* to its kind for the kinds DispType does not spell out.
VPrint(m, text) ==
    IF verbose /\ m.result = "running"
    THEN [m EXCEPT !.out = Write(@, "verbose", 0, text)]
    ELSE m

BoolStr(b) == IF b THEN "true" ELSE "false"

\* A variant of set_emit_state that never marks a type Emitted.
set_emit_state_undone(m, id, st) ==
    IF m.result # "running" THEN m
    ELSE [m EXCEPT !.emit_state[id] = IF st = "Emitted" THEN "NotEmitted" ELSE st]

\* A variant of set_emit_state that never takes a type back to NotEmitted.
set_emit_state_kept(m, id, st) ==
    IF m.result # "running" \/ st = "NotEmitted" THEN m
    ELSE [m EXCEPT !.emit_state[id] = st]

set_emit_state(m, id, st) ==
    IF m.result # "running" THEN m ELSE [m EXCEPT !.emit_state[id] = st]

\* A variant of set_fwd_emitted that forgets what has been declared.
set_fwd_emitted_never(m, id, emitted) == m

set_fwd_emitted(m, id, emitted) ==
    IF m.result # "running" THEN m ELSE [m EXCEPT !.fwd_emitted[id] = emitted]

-----------------------------------------------------------------------------
(* emit_type_fwds (c_dumper.rs 213-374).                                   *)

\* A variant of fwd_not_needed that takes every tag to be declared already.
fwd_never_needed(m, id, cont_id) == TRUE

\* line 230, 253: no forward declaration is needed.
fwd_not_needed(m, id, cont_id) == m.fwd_emitted[id] \/ id = cont_id

\* line 301, 325: the members of this struct/union are visited.
visits_members(t, is_def_) == is_def_ \/ t.name = ""

\* A variant of member_cont_id in which an anonymous struct/union becomes the
\* container of its members.
member_cont_id_own(t, id, cont_id) == id

\* line 307, 331: the container the members are visited for.
member_cont_id(t, id, cont_id) == IF t.name = "" THEN cont_id ELSE id

\* lines 237-240, 257-260, 315-318, 336-339: the forward declaration of
\* struct/union id is written, if its name is not blacklisted.
emit_fwd_text(w, id, t) ==
    IF t.kind = "Struct" THEN emit_struct_fwd(w, id, t) ELSE emit_union_fwd(w, id, t)

\* `if self.emit_struct_fwd(id, t) { println!(";\n") }`, w being what the
\* call printed and returned
commit_fwd(m, w, id) ==
    IF w.res THEN Term(Commit(m, w, "fwd", id), id) ELSE Commit(m, w, "fwd", id)

emit_fwd_decl(m, id, tag) ==
    set_fwd_emitted(
        commit_fwd(IF type_by_id(id).kind = "Struct" THEN VPrint(m, tag) ELSE m,
                   emit_fwd_text(Writer(m.state_name, m.names), id, type_by_id(id)), id),
        id, TRUE)

\* The top frame is an emit_type_fwds call that has not started.
\* lines 215-222: the trace of verbose mode
fwds_trace(m, f) ==
    VPrint(m, "EMIT_TYPE_FWDS id: " \o ToString(f.id) \o ", cont_id: "
              \o ToString(f.cont_id) \o ", is_def: " \o BoolStr(f.flag)
              \o ", state: " \o m.emit_state[f.id] \o ", type: "
              \o DispType(f.id) \o "\n")

\* lines 224-373: the body of emit_type_fwds up to its first call or its return
emit_type_fwds_body(m, id, cont_id, is_def_, t) ==
    LET w0 == Writer(m.state_name, m.names)
        child(tid, cid) == Frame("emit_type_fwds", tid, FALSE, cid)
    IN  CASE m.emit_state[id] = "Emitted" -> Return(m, m.ret)
          [] m.emit_state[id] = "Emitting" ->
               CASE t.kind \in {"Struct", "Union"} ->
                      IF fwd_not_needed(m, id, cont_id) THEN Return(m, m.ret)
                      ELSE IF t.name # "" THEN Return(emit_fwd_decl(m, id, "AAA "), m.ret)
                      ELSE Fail(m, "anonymous_loop")
                 [] t.kind = "Typedef" ->
                      IF m.fwd_emitted[id] THEN Return(m, m.ret)
                      ELSE Return(
                             set_fwd_emitted(
                               Newlines(Commit(m, emit_typedef_def(w0, id, t, 0),
                                               "typedef_def", id), id),
                               id, TRUE),
                             m.ret)
                 [] OTHER -> Return(m, m.ret)
          [] OTHER ->
               CASE t.kind \in {"Func", "Var", "Datasec", "Void", "Int"} -> Return(m, m.ret)
                 [] t.kind \in {"Volatile", "Const", "Restrict", "Ptr", "Array"} ->
                      Call(m, "tail", child(t.type_id, cont_id))
                 [] t.kind = "FuncProto" ->
                      Call(m, "params", child(t.type_id, cont_id))
                 [] t.kind \in {"Struct", "Union"} ->
                      LET m1 == set_emit_state(m, id, "Emitting")
                      IN  IF visits_members(t, is_def_)
                          THEN IF t.members # <<>>
                               THEN Call([m1 EXCEPT !.stack[Len(m.stack)].idx = 2], "members",
                                         child(t.members[1].type_id,
                                               member_cont_id(t, id, cont_id)))
                               ELSE Return(set_emit_state(m1, id, "NotEmitted"), m.ret)
                          ELSE IF ~fwd_not_needed(m, id, cont_id)
                               THEN Return(set_emit_state(emit_fwd_decl(m1, id, "BBB "),
                                                          id, "NotEmitted"), m.ret)
                               ELSE Return(set_emit_state(m1, id, "NotEmitted"), m.ret)
                 [] t.kind = "Enum" ->
                      Return(set_emit_state(
                               IF t.name # ""
                               THEN Term(Commit(m, emit_enum_def(w0, id, t, 0),
                                                "enum_def", id), id)
                               ELSE m,
                               id, "Emitted"), m.ret)
                 [] t.kind = "Fwd" ->
                      Return(set_emit_state(
                               Term(Commit(m, emit_type_decl(w0, id, "", 0), "fwd_def", id),
                                    id),
                               id, "Emitted"), m.ret)
                 [] t.kind = "Typedef" ->
                      Call(set_emit_state(m, id, "Emitting"), "target", child(t.type_id, id))

\* The top frame is an emit_type_fwds call that has not started.
emit_type_fwds(m) ==
    emit_type_fwds_body(fwds_trace(m, Top(m)), Top(m).id, Top(m).cont_id, Top(m).flag,
                        type_by_id(Top(m).id))

\* The top frame is an emit_type_fwds call whose callee has just returned.
emit_type_fwds_resume(m) ==
    LET f == Top(m)
        id == f.id
        cont_id == f.cont_id
        t == type_by_id(id)
        w0 == Writer(m.state_name, m.names)
        child(tid, cid) == Frame("emit_type_fwds", tid, FALSE, cid)
    IN  CASE f.pc = "tail" -> Return(m, m.ret)
          [] f.pc = "params" ->
               IF f.idx <= Len(t.params)
               THEN Call([m EXCEPT !.stack[Len(m.stack)].idx = f.idx + 1], "params",
                         child(t.params[f.idx].type_id, cont_id))
               ELSE Return(m, m.ret)
          [] f.pc = "members" ->
               IF f.idx <= Len(t.members)
               THEN Call([m EXCEPT !.stack[Len(m.stack)].idx = f.idx + 1], "members",
                         child(t.members[f.idx].type_id, member_cont_id(t, id, cont_id)))
               ELSE Return(set_emit_state(m, id, "NotEmitted"), m.ret)
          [] f.pc = "target" ->
               Return(set_emit_state(
                        IF ~m.fwd_emitted[id]
                        THEN set_fwd_emitted(
                               Term(Commit(VPrint(m, "BBB "), emit_typedef_def(w0, id, t, 0),
                                           "typedef_def", id), id),
                               id, TRUE)
                        ELSE m,
                        id, "Emitted"), m.ret)

-----------------------------------------------------------------------------
(* emit_type_def (c_dumper.rs 376-438).                                    *)

\* line 417: a typedef the forward pass has written is not written again.
typedef_def_needed(m, id) == ~m.fwd_emitted[id]

emit_type_def(m, id) ==
    LET t == type_by_id(id)
        w0 == Writer(m.state_name, m.names)
        m0 == VPrint(m, "EMIT_TYPE_DEF1 id:" \o ToString(id) \o " state:"
                        \o m.emit_state[id] \o " fwd_emitted:"
                        \o BoolStr(m.fwd_emitted[id]) \o "\n")
        m1 == VPrint(m0, "EMIT_TYPE_DEF2 id:" \o ToString(id) \o "\n")
        done(mm) == set_emit_state(VPrint(mm, "EMIT_TYPE_DEF3 id:" \o ToString(id) \o "\n"),
                                   id, "Emitted")
    IN  CASE m.emit_state[id] = "Emitting" -> Fail(m0, "emit_type_def_loop")
          [] m.emit_state[id] = "Emitted" -> m0
          [] OTHER ->
               CASE t.kind = "Struct" /\ t.name # "" ->
                      done(Term(Commit(m1, emit_struct_def(w0, id, t, 0), "struct_def", id), id))
                 [] t.kind = "Union" /\ t.name # "" ->
                      done(Term(Commit(m1, emit_union_def(w0, id, t, 0), "union_def", id), id))
                 [] t.kind = "Enum" /\ t.name # "" ->
                      done(Term(Commit(m1, emit_enum_def(w0, id, t, 0), "enum_def", id), id))
                 [] t.kind = "Fwd" /\ t.name # "" ->
                      done(Term(Commit(m1, emit_fwd_def(w0, id, t), "fwd_def", id), id))
                 [] t.kind = "Typedef" /\ t.name # "" ->
                      done(IF typedef_def_needed(m, id)
                           THEN Term(Commit(VPrint(m1, "CCC "), emit_typedef_def(w0, id, t, 0),
                                            "typedef_def", id), id)
                           ELSE m1)
                 [] OTHER -> Fail(m1, "unexpected_definition")

-----------------------------------------------------------------------------
(* dump_types (c_dumper.rs 71-104).                                        *)

Assign(m) ==
    /\ order_state' = m.order_state
    /\ emit_state' = m.emit_state
    /\ fwd_emitted' = m.fwd_emitted
    /\ state_name' = m.state_name
    /\ names' = m.names
    /\ order' = m.order
    /\ out' = m.out
    /\ stack' = m.stack
    /\ ret' = m.ret
    /\ result' = m.result
    /\ UNCHANGED <<btf, ptr_sz, verbose, filter>>

InDump(p) == pc = p /\ stack = <<>> /\ result = "running"

InCall(fn) == stack # <<>> /\ result = "running" /\ stack[Len(stack)].fn = fn

\* line 75: the ids from `from` on that the ordering loop passes to order_type.
accepted_from(from) ==
    {id \in DOMAIN btf : id >= from /\ is_named_def(id) /\ id \in filter}

SetMin(S) == CHOOSE x \in S : \A y \in S : x <= y

\* lines 73-81: the iterations of the ordering loop up to the next call of
\* order_type, or to the end of the loop.
DumpOrderLoop ==
    /\ InDump("order")
    /\ IF accepted_from(loop_id) = {}
       THEN /\ pc' = "emit"
            /\ loop_id' = 1
            /\ Assign(Machine)
       ELSE LET id == SetMin(accepted_from(loop_id))
            IN  /\ pc' = "order"
                /\ loop_id' = id + 1
                /\ Assign([Machine EXCEPT
                             !.stack = <<Frame("order_type", id, FALSE, 0)>>])

\* The step to machine m; dump_types is then at p with loop index l, or has
\* ended.
Step(m, p, l) ==
    /\ Assign(m)
    /\ pc' = IF m.result # "running" THEN "done" ELSE p
    /\ loop_id' = l

OrderTypeCall ==
    /\ InCall("order_type")
    /\ stack[Len(stack)].pc = "start"
    /\ Step(order_type(Machine), pc, loop_id)

OrderTypeResume ==
    /\ InCall("order_type")
    /\ stack[Len(stack)].pc # "start"
    /\ Step(order_type_resume(Machine), pc, loop_id)

\* lines 88-93: one iteration of the emission loop up to the call of
\* emit_type_fwds, or the end of dump_types.
DumpEmitLoop ==
    /\ InDump("emit")
    /\ IF loop_id > Len(order)
       THEN /\ pc' = "done"
            /\ UNCHANGED loop_id
            /\ Assign([Machine EXCEPT !.result = "ok"])
       ELSE LET id == order[loop_id]
                m0 == VPrint(Machine, "XXX id:" \o ToString(id) \o ", is_named_def:"
                                      \o BoolStr(is_named_def(id)) \o "\n")
            IN  IF is_named_def(id)
                THEN /\ pc' = "def"
                     /\ UNCHANGED loop_id
                     /\ Assign([m0 EXCEPT
                                  !.stack = <<Frame("emit_type_fwds", id, TRUE, id)>>])
                ELSE /\ pc' = "emit"
                     /\ loop_id' = loop_id + 1
                     /\ Assign(m0)

EmitTypeFwdsCall ==
    /\ InCall("emit_type_fwds")
    /\ stack[Len(stack)].pc = "start"
    /\ Step(emit_type_fwds(Machine), pc, loop_id)

EmitTypeFwdsResume ==
    /\ InCall("emit_type_fwds")
    /\ stack[Len(stack)].pc # "start"
    /\ Step(emit_type_fwds_resume(Machine), pc, loop_id)

\* lines 94-100: the rest of the iteration, emit_type_def.
DumpEmitDef ==
    /\ InDump("def")
    /\ Step(VPrint(emit_type_def(VPrint(Machine, "FWDS id: " \o ToString(order[loop_id])
                                                   \o ", type: "
                                                   \o DispType(order[loop_id]) \o "\n"),
                                  order[loop_id]),
                    "DEF id: " \o ToString(order[loop_id]) \o ", type: "
                        \o DispType(order[loop_id]) \o "\n"),
            "emit", loop_id + 1)

-----------------------------------------------------------------------------
(* The inputs: type graphs and filters.                                    *)

\* Btf.types: id 0 is Void, the nodes follow.
MkBtf(nodes) == [id \in 0..Len(nodes) |-> IF id = 0 THEN BtfVoid ELSE nodes[id]]

Mem(t) == BtfMember("m", t, 0, 0)

\* Every graph of three nodes, each a pointer, a qualifier, a typedef, a
\* struct (with a tag or anonymous) of one member, or an enum, with every
\* choice of the ids the nodes refer to.
TopoIds == {1, 2, 3}

TopoNodes ==
    {BtfPtr(t) : t \in TopoIds} \cup {BtfConst(t) : t \in TopoIds}
    \cup {BtfTypedef("t", t) : t \in TopoIds}
    \cup {BtfStruct(n, 8, <<Mem(t)>>) : n \in {"", "s"}, t \in TopoIds}
    \cup {BtfEnum("e", 32, <<BtfEnumValue("A", 0)>>)}

TopoGraphs == {MkBtf([i \in 1..3 |-> g[i]]) : g \in [TopoIds -> TopoNodes]}

\* Graphs of NumNamed definitions that refer to no other type and compete
\* for names: tags and typedef names that collide, that have the form of a
\* generated name, or that the blacklist matches.
NumNamed == 3

TagNames == {"foo", "foo__2", "__builtin_va_list"}

NamedNodes ==
    {BtfStruct(n, 0, <<>>) : n \in TagNames}
    \cup {BtfUnion(n, 0, <<>>) : n \in {"foo"}}
    \cup {BtfEnum(n, 32, <<BtfEnumValue(v, 1)>>) : n \in {"", "foo"}, v \in {"foo", "foo__2"}}
    \cup {BtfTypedef(n, 0) : n \in TagNames}
    \cup {BtfFwd("foo", "struct")}

NamedGraphs ==
    {MkBtf([i \in 1..NumNamed |-> g[i]]) : g \in [1..NumNamed -> NamedNodes]}

Int32 == BtfInt("int", 32)

\* Single graphs: the scenarios of the specification and the kinds and
\* shapes the families above leave out.
Scenarios ==
    { \* typedef int my_int;
      MkBtf(<<Int32, BtfTypedef("my_int", 1)>>),
      \* struct node { struct node *next; int val; };
      MkBtf(<<Int32,
              BtfStruct("node", 16, <<BtfMember("next", 3, 0, 0), BtfMember("val", 1, 64, 0)>>),
              BtfPtr(2)>>),
      \* struct a { struct b *b; }; struct b { struct a *a; };
      MkBtf(<<BtfStruct("a", 8, <<BtfMember("b", 3, 0, 0)>>),
              BtfStruct("b", 8, <<BtfMember("a", 4, 0, 0)>>), BtfPtr(2), BtfPtr(1)>>),
      \* two structs named foo, the second embedded in the first
      MkBtf(<<Int32, BtfStruct("foo", 4, <<BtfMember("a", 3, 0, 0)>>),
              BtfStruct("foo", 4, <<BtfMember("b", 1, 0, 0)>>)>>),
      \* struct bf { int a: 3; int b: 5 at bit 16; }
      MkBtf(<<Int32,
              BtfStruct("bf", 4, <<BtfMember("a", 1, 0, 3), BtfMember("b", 1, 16, 5)>>)>>),
      \* typedef int (*callback_array[4])(int, char *);
      MkBtf(<<Int32, BtfInt("char", 8), BtfPtr(2),
              BtfFuncProto(1, <<BtfFuncParam("", 1), BtfFuncParam("", 3)>>), BtfPtr(4),
              BtfArray(5, 4), BtfTypedef("callback_array", 6)>>),
      \* typedef struct S T(enum E e); struct S { T *p; };
      MkBtf(<<BtfTypedef("T", 2), BtfFuncProto(3, <<BtfFuncParam("e", 5)>>),
              BtfStruct("S", 8, <<BtfMember("p", 4, 0, 0)>>), BtfPtr(1),
              BtfEnum("E", 32, <<BtfEnumValue("A", 0), BtfEnumValue("B", 1)>>)>>),
      \* struct o { union { int x; const int y; } u; enum { A } e; char c; }, packed
      MkBtf(<<Int32,
              BtfStruct("o", 9, <<BtfMember("u", 3, 0, 0), BtfMember("e", 5, 32, 0),
                                  BtfMember("c", 6, 64, 0)>>),
              BtfUnion("", 4, <<BtfMember("x", 1, 0, 0), BtfMember("y", 4, 0, 0)>>),
              BtfConst(1), BtfEnum("", 32, <<BtfEnumValue("A", 0)>>), BtfInt("char", 8)>>),
      \* union u { struct s *p; volatile int v; int *restrict r; }; struct s { union u u; };
      MkBtf(<<Int32,
              BtfUnion("u", 8, <<BtfMember("p", 3, 0, 0), BtfMember("v", 5, 0, 0),
                                 BtfMember("r", 6, 0, 0)>>),
              BtfPtr(4), BtfStruct("s", 8, <<BtfMember("u", 2, 0, 0)>>),
              BtfVolatile(1), BtfRestrict(7), BtfPtr(1)>>),
      \* struct va { struct __builtin_va_list *p; }; struct __builtin_va_list { int g; };
      MkBtf(<<Int32, BtfStruct("va", 8, <<BtfMember("p", 3, 0, 0)>>), BtfPtr(4),
              BtfStruct("__builtin_va_list", 4, <<BtfMember("g", 1, 0, 0)>>)>>),
      \* a member of function type, and function, variable and section nodes
      MkBtf(<<Int32, BtfFuncProto(1, <<>>), BtfFunc("f", 2), BtfVar("v", 1),
              BtfDatasec(".data", 4),
              BtfStruct("w", 24, <<BtfMember("a", 7, 0, 0), BtfMember("b", 8, 64, 0),
                                   BtfMember("c", 9, 128, 0)>>),
              BtfPtr(3), BtfPtr(4), BtfPtr(5)>>),
      \* struct z { void v; }: a member whose type has no alignment
      MkBtf(<<BtfStruct("z", 0, <<BtfMember("v", 0, 0, 0)>>)>>),
      \* struct g { char c; long l at bit 128; int i: 7 at bit 200; }
      MkBtf(<<BtfInt("char", 8), BtfInt("long", 64), Int32,
              BtfStruct("g", 32, <<BtfMember("c", 1, 0, 0), BtfMember("l", 2, 128, 0),
                                   BtfMember("i", 3, 200, 7)>>)>>),
      \* struct fw; union fu; struct h { struct fw *a; }; struct h2 { void (*f)(struct h2 *, ...); }
      MkBtf(<<BtfFwd("fw", "struct"), BtfFwd("fu", "union"), BtfPtr(1),
              BtfStruct("h", 8, <<BtfMember("a", 3, 0, 0)>>),
              BtfStruct("h2", 8, <<BtfMember("f", 6, 0, 0)>>), BtfPtr(7),
              BtfFuncProto(0, <<BtfFuncParam("", 8), BtfFuncParam("", 0)>>), BtfPtr(5)>>),
      \* struct q { struct <no tag> *a; }: a forward declaration node without a name
      MkBtf(<<BtfFwd("", "struct"), BtfStruct("q", 8, <<BtfMember("a", 3, 0, 0)>>),
              BtfPtr(1)>>),
      \* struct s { T *m; }; typedef struct s T[4];
      MkBtf(<<BtfStruct("s", 8, <<BtfMember("m", 2, 0, 0)>>), BtfPtr(3),
              BtfTypedef("T", 4), BtfArray(1, 4)>>),
      \* struct x { t a; struct x b; }; typedef t *t;
      MkBtf(<<BtfStruct("x", 16, <<BtfMember("a", 2, 0, 0), BtfMember("b", 1, 64, 0)>>),
              BtfTypedef("t", 3), BtfPtr(2)>>),
      \* typedef struct { t a; <this struct> *b; } r; typedef t *t;
      MkBtf(<<BtfTypedef("r", 2),
              BtfStruct("", 16, <<BtfMember("a", 3, 0, 0), BtfMember("b", 5, 64, 0)>>),
              BtfTypedef("t", 4), BtfPtr(3), BtfPtr(2)>>),
      \* struct a { struct c *x; struct c *y; td *p; td *q; }; typedef int td; struct c {};
      MkBtf(<<BtfPtr(5),
              BtfStruct("a", 32, <<BtfMember("x", 1, 0, 0), BtfMember("y", 1, 64, 0),
                                   BtfMember("p", 3, 128, 0), BtfMember("q", 3, 192, 0)>>),
              BtfPtr(4), BtfTypedef("td", 6), BtfStruct("c", 0, <<>>), Int32>>)
    }

\* The runs: a graph, the filter (every id, or one), the pointer size and
\* the verbose flag.
Inputs ==
    [btf : TopoGraphs, filter : {{1, 2, 3}, {1}}, ptr_sz : {8}, verbose : {FALSE}]
    \cup [btf : NamedGraphs, filter : {0..NumNamed}, ptr_sz : {8}, verbose : {FALSE}]
    \cup {[btf |-> g, filter |-> f, ptr_sz |-> p, verbose |-> v] :
            g \in Scenarios, f \in {0..7, {2}}, p \in {4, 8}, v \in BOOLEAN}

\* CDumper::new, and dump_types about to enter its first loop.
InitDumper ==
    /\ order_state = [id \in DOMAIN btf |-> "NotOrdered"]
    /\ emit_state = [id \in DOMAIN btf |-> "NotEmitted"]
    /\ fwd_emitted = [id \in DOMAIN btf |-> FALSE]
    /\ state_name = [id \in DOMAIN btf |-> ""]
    /\ names = <<>>
    /\ order = <<>>
    /\ out = <<>>
    /\ stack = <<>>
    /\ ret = FALSE
    /\ pc = "order"
    /\ loop_id = 0
    /\ result = "running"

Init ==
    /\ \E i \in Inputs :
          /\ btf = i.btf
          /\ filter = i.filter
          /\ ptr_sz = i.ptr_sz
          /\ verbose = i.verbose
    /\ InitDumper

Next ==
    \/ DumpOrderLoop
    \/ OrderTypeCall
    \/ OrderTypeResume
    \/ DumpEmitLoop
    \/ EmitTypeFwdsCall
    \/ EmitTypeFwdsResume
    \/ DumpEmitDef

Spec == Init /\ [][Next]_vars

-----------------------------------------------------------------------------
(* The name resolver on its own: resolve_name and resolve_enum_val_name    *)
(* called in any order on the types of a graph.  out holds the calls made: *)
(* the function (site), the type (id) and the name returned (text); order  *)
(* holds, call by call, the index of the enumerator (0 for a type).        *)

\* The number of calls made in a run.
MaxCalls == 3

ResolveIds == {1, 2, 3}

\* Types that compete for the name foo in both namespaces, and types
\* without a name.
ResolveNodes ==
    {BtfStruct("foo", 0, <<>>), BtfStruct("", 0, <<>>), BtfTypedef("foo", 0),
     BtfEnum("foo", 32, <<BtfEnumValue("foo", 1), BtfEnumValue("bar", 2)>>),
     BtfEnum("", 32, <<BtfEnumValue("foo", 1)>>)}

ResolveGraphs == {MkBtf([i \in 1..3 |-> g[i]]) : g \in [ResolveIds -> ResolveNodes]}

InitResolve ==
    /\ btf \in ResolveGraphs
    /\ filter = {}
    /\ ptr_sz = 8
    /\ verbose = FALSE
    /\ order_state = [id \in DOMAIN btf |-> "NotOrdered"]
    /\ emit_state = [id \in DOMAIN btf |-> "NotEmitted"]
    /\ fwd_emitted = [id \in DOMAIN btf |-> FALSE]
    /\ state_name = [id \in DOMAIN btf |-> ""]
    /\ names = <<>>
    /\ order = <<>>
    /\ out = <<>>
    /\ stack = <<>>
    /\ ret = FALSE
    /\ pc = "resolve"
    /\ loop_id = 0
    /\ result = "running"

\* The state after a call of a resolver that left the writer w.
ResolverCalled(w, site, id, v) ==
    /\ state_name' = w.state_name
    /\ names' = w.names
    /\ out' = Append(out, [site |-> site, id |-> id, text |-> w.res])
    /\ order' = Append(order, v)
    /\ UNCHANGED <<btf, ptr_sz, verbose, filter, order_state, emit_state, fwd_emitted,
                   stack, ret, pc, loop_id, result>>

ResolveNameCall ==
    /\ pc = "resolve"
    /\ Len(out) < MaxCalls
    /\ \E id \in DOMAIN btf :
          ResolverCalled(resolve_name(Writer(state_name, names), id), "resolve_name", id, 0)

ResolveEnumValNameCall ==
    /\ pc = "resolve"
    /\ Len(out) < MaxCalls
    /\ \E id \in {i \in DOMAIN btf : type_by_id(i).kind = "Enum"} : \E v \in 1..Len(type_by_id(id).values) :
          ResolverCalled(resolve_enum_val_name(Writer(state_name, names), id, type_by_id(id),
                                         type_by_id(id).values[v].name),
                   "resolve_enum_val_name", id, v)

NextResolve == ResolveNameCall \/ ResolveEnumValNameCall

SpecResolve == InitResolve /\ [][NextResolve]_vars

-----------------------------------------------------------------------------
(* emit_bit_padding on its own, one iteration of its loop at a time.  The  *)
(* arguments are in the only frame of the stack; loop_id is bit_diff; out  *)
(* holds the bitfields written: the type (site), the width (id) and the    *)
(* line printed (text); order holds bit_diff at the start of each          *)
(* iteration.                                                              *)

\* The largest bit offset of a member.
MaxBits == 72

\* The types of the members: void and integers of 32, 8 and 64 bits.
PadBtf == MkBtf(<<BtfInt("int", 32), BtfInt("char", 8), BtfInt("long", 64)>>)

PadFrames ==
    {[fn |-> "emit_bit_padding", offset |-> o, m |-> BtfMember("m", t, off, bsz),
      packed |-> p, lvl |-> 1] :
        o \in {0, 3}, t \in DOMAIN PadBtf, off \in 0..MaxBits, bsz \in {0, 3},
        p \in BOOLEAN}

InitPad ==
    /\ btf = PadBtf
    /\ filter = {}
    /\ ptr_sz \in {4, 8}
    /\ verbose = FALSE
    /\ order_state = [id \in DOMAIN btf |-> "NotOrdered"]
    /\ emit_state = [id \in DOMAIN btf |-> "NotEmitted"]
    /\ fwd_emitted = [id \in DOMAIN btf |-> FALSE]
    /\ state_name = [id \in DOMAIN btf |-> ""]
    /\ names = <<>>
    /\ order = <<>>
    /\ out = <<>>
    /\ \E f \in PadFrames : stack = <<f>>
    /\ ret = FALSE
    /\ pc = "pad_start"
    /\ loop_id = 0
    /\ result = "running"

\* emit_bit_padding goes to the place p with bit_diff = d.
PadGoto(p, d) ==
    /\ pc' = p
    /\ loop_id' = d
    /\ UNCHANGED <<btf, ptr_sz, verbose, filter, order_state, emit_state, fwd_emitted,
                   state_name, names, order, out, stack, ret, result>>

\* lines 535-542, for the gap and the alignment computed above them
PadGap(bit_diff, align, m) ==
    IF m.bit_size = 0 /\ bit_diff < align * 8
    THEN PadGoto("pad_skipped", 0)
    ELSE PadGoto("pad_loop", bit_diff)

\* lines 526-542: up to the loop
EmitBitPaddingCall ==
    /\ pc = "pad_start"
    /\ IF stack[1].offset >= stack[1].m.bit_offset
       THEN PadGoto("pad_skipped", 0)
       ELSE PadGap(stack[1].m.bit_offset - stack[1].offset,
                   IF stack[1].packed THEN 1 ELSE get_align_of(stack[1].m.type_id),
                   stack[1].m)

\* lines 550-551: bit_diff -= pad_bits, which must not go below zero, and
\* the line printed
PadWritten(pad, lvl) ==
    IF pad[2] > loop_id
    THEN /\ result' = "sub_overflow"
         /\ pc' = "pad_done"
         /\ UNCHANGED <<btf, ptr_sz, verbose, filter, order_state, emit_state,
                        fwd_emitted, state_name, names, order, out, stack, ret, loop_id>>
    ELSE /\ loop_id' = loop_id - pad[2]
         /\ order' = Append(order, loop_id)
         /\ out' = Append(out, [site |-> pad[1], id |-> pad[2],
                                text |-> "\n" \o pfx(lvl) \o pad[1] \o ": "
                                            \o ToString(pad[2]) \o ";"])
         /\ UNCHANGED <<btf, ptr_sz, verbose, filter, order_state, emit_state,
                        fwd_emitted, state_name, names, stack, ret, pc, result>>

\* lines 540-552: one iteration of the loop, or its end
EmitBitPaddingLoop ==
    /\ pc = "pad_loop"
    /\ IF loop_id > 0
       THEN PadWritten(pad_of(loop_id, ptr_sz * 8), stack[1].lvl)
       ELSE PadGoto("pad_done", loop_id)

NextPad == EmitBitPaddingCall \/ EmitBitPaddingLoop

SpecPad == InitPad /\ [][NextPad]_vars

-----------------------------------------------------------------------------
(* The relations between types that the properties are stated in.          *)

\* The ids a type refers to directly.
Refs(id) ==
    LET t == type_by_id(id)
    IN  CASE t.kind \in {"Ptr", "Const", "Volatile", "Restrict", "Array", "Typedef",
                         "Func", "Var"} -> {t.type_id}
          [] t.kind = "FuncProto" ->
               {t.type_id} \cup {t.params[i].type_id : i \in 1..Len(t.params)}
          [] t.kind \in {"Struct", "Union"} ->
               {t.members[i].type_id : i \in 1..Len(t.members)}
          [] OTHER -> {}

\* The ids reached from the set S by going on from the ids in X.
RECURSIVE Closure(_, _)
Closure(S, X) ==
    LET N == S \cup UNION {Refs(x) : x \in S \cap X}
    IN  IF N = S THEN S ELSE Closure(N, X)

OfKind(K) == {id \in DOMAIN btf : type_by_id(id).kind \in K}

AllKinds ==
    {"Void", "Int", "Ptr", "Array", "Struct", "Union", "Enum", "Fwd", "Typedef",
     "Volatile", "Const", "Restrict", "Func", "FuncProto", "Var", "Datasec"}

\* The kinds a by-value path passes through: members, typedef targets,
\* arrays and qualifiers.
ByValueKinds == {"Struct", "Union", "Typedef", "Array", "Const", "Volatile", "Restrict"}

\* A embeds B by value.
Embeds(a, b) == b \in Closure(Refs(a), OfKind(ByValueKinds))

NamedDefs == {id \in DOMAIN btf : is_named_def(id)}

Composites == OfKind({"Struct", "Union"})

\* The types that are written inside the declaration that uses them:
\* pointers, qualifiers, arrays, function types and anonymous composites.
Inline ==
    OfKind({"Ptr", "Const", "Volatile", "Restrict", "Array", "FuncProto"})
    \cup {id \in Composites : type_by_id(id).name = ""}

\* The pointers in the declaration of a, and what the declaration of a names
\* behind a pointer.
PtrsOf(a) == Closure(Refs(a), Inline \ OfKind({"Ptr"})) \cap OfKind({"Ptr"})

PointsTo(a, b) == b \in Closure(UNION {Refs(p) : p \in PtrsOf(a)}, Inline)

Blacklisted == {id \in DOMAIN btf : is_match(type_by_id(id).name)}

\* Where in the output the definition of id, or its forward declaration, is.
DefAt(id) == {i \in 1..Len(out) : out[i].site \in DefSites /\ out[i].id = id}

FwdAt(id) == {i \in 1..Len(out) : out[i].site = "fwd" /\ out[i].id = id}

\* Something at one of the positions P comes before everything at the positions Q.
Before(P, Q) == \E i \in P : \A j \in Q : i < j

Written == {id \in NamedDefs : DefAt(id) # {}}

-----------------------------------------------------------------------------
(* C1 *)

\* C1, as stated: after a successful dump_types, for all named definitions A
\* and B written to the output where A embeds B by value, the full definition
\* of B comes before the definition of A, also when A is a typedef written by
\* the forward-declaration pass.
C1_AsStated ==
    result = "ok" =>
        \A a \in Written : \A b \in Written \ {a} :
            Embeds(a, b) => Before(DefAt(b), DefAt(a))

-----------------------------------------------------------------------------
(* C2 *)

\* C2, as stated: after a successful dump_types, for every pointer edge from
\* a written definition A to a named struct or union B other than A, the full
\* definition of B or a forward declaration of B comes before the definition
\* of A.
C2_AsStated ==
    result = "ok" =>
        \A a \in Written : \A b \in (Composites \cap NamedDefs) \ {a} :
            PointsTo(a, b) => Before(DefAt(b) \cup FwdAt(b), DefAt(a))

\* C2: the same, for every B whose name the blacklist does not match.
C2_WeakEdge ==
    result = "ok" =>
        \A a \in Written : \A b \in (Composites \cap NamedDefs) \ ({a} \cup Blacklisted) :
            PointsTo(a, b) => Before(DefAt(b) \cup FwdAt(b), DefAt(a))

\* C2: a run that ended well and wrote a forward declaration of a struct
\* before a definition that points to it, and the full definition after.
C2_Witness ==
    /\ result = "ok"
    /\ \E a \in Written : \E b \in (Composites \cap NamedDefs) \ ({a} \cup Blacklisted) :
          /\ PointsTo(a, b)
          /\ Before(FwdAt(b), DefAt(a))
          /\ ~Before(DefAt(b), DefAt(a))

-----------------------------------------------------------------------------
(* C3 *)

NonPtrs == DOMAIN btf \ OfKind({"Ptr"})

\* Every cycle of the graph passes through a pointer.
PtrBroken == \A x \in NonPtrs : x \notin Closure(Refs(x), NonPtrs)

\* C3, as stated: on a graph in which every cycle passes through a pointer,
\* whatever the filter, no step of the ordering pass is a call of order_type
\* that the stack has no room for: the pass does not recurse forever.
C3_AsStated ==
    [][(PtrBroken /\ pc = "order") => result' # "stack_overflow"]_vars

-----------------------------------------------------------------------------
(* C4 *)

\* How often id is in the sequence s.
Count(s, id) == Cardinality({i \in 1..Len(s) : s[i] = id})

\* The ordering pass has ended well.
Ordered == pc \in {"emit", "def"} \/ result = "ok"

\* C4, as stated: after a successful ordering pass every named definition the
\* filter accepts is in the order list exactly once, and no id is in it twice.
C4_AsStated ==
    Ordered =>
        /\ \A id \in NamedDefs \cap filter : Count(order, id) = 1
        /\ \A id \in DOMAIN btf : Count(order, id) <= 1

-----------------------------------------------------------------------------
(* C5 *)

\* The named definitions the filter accepts, and all they reach.
Roots == NamedDefs \cap filter

Reachable == Closure(Roots, DOMAIN btf)

\* C5, as stated: if the graph reachable from an accepted type has a cycle
\* with no pointer on it, dump_types ends with the unsatisfiable-cycle error,
\* whatever the kinds of the nodes of the cycle.
C5_AsStated ==
    (pc = "done" /\ \E x \in Reachable \cap NonPtrs : x \in Closure(Refs(x), NonPtrs))
        => result = "unsatisfiable_cycle"

-----------------------------------------------------------------------------
(* C6 *)

\* The C namespace of the name of a type: tags, or ordinary identifiers.
Namespace(id) == NamedKind(type_by_id(id).kind)

\* C6, as stated, for the names resolve_name hands out and keeps: two types
\* of one namespace never have the same resolved name.
C6_AsStated ==
    \A a \in DOMAIN btf : \A b \in DOMAIN btf \ {a} :
        (state_name[a] # "" /\ Namespace(a) = Namespace(b))
            => state_name[a] # state_name[b]

-----------------------------------------------------------------------------
(* C7 *)

\* C7, as stated: every forward declaration in the output, and every
\* definition written at top level, is of a type with a name.
C7_AsStated ==
    \A i \in 1..Len(out) :
        out[i].site \in DefSites \cup {"fwd"} => type_by_id(out[i].id).name # ""

-----------------------------------------------------------------------------
(* C9 *)

\* The named structs, unions, enums and typedefs.
FullDefs == NamedDefs \ OfKind({"Fwd"})

-----------------------------------------------------------------------------
(* C10 *)

\* C10, as stated: nothing in the output is written for a type whose name
\* the blacklist matches.
C10_AsStated ==
    \A i \in 1..Len(out) : out[i].id \notin Blacklisted

-----------------------------------------------------------------------------
(* C11 *)

\* The pairs of named structs, both accepted by the filter, that refer to
\* each other through pointers and do not embed each other.
MutualPtrs ==
    {ab \in (OfKind({"Struct"}) \cap Roots) \X (OfKind({"Struct"}) \cap Roots) :
        /\ ab[1] # ab[2]
        /\ ab[1] \notin Blacklisted /\ ab[2] \notin Blacklisted
        /\ PointsTo(ab[1], ab[2]) /\ PointsTo(ab[2], ab[1])
        /\ ~Embeds(ab[1], ab[2]) /\ ~Embeds(ab[2], ab[1])}

\* C11, as stated: after a successful dump_types, for two accepted named
\* structs a and b that refer to each other only through pointers, the output
\* has a forward declaration of a and one of b, both before either definition.
C11_AsStated ==
    result = "ok" =>
        \A ab \in MutualPtrs :
            /\ Before(FwdAt(ab[1]), DefAt(ab[1]) \cup DefAt(ab[2]))
            /\ Before(FwdAt(ab[2]), DefAt(ab[1]) \cup DefAt(ab[2]))

\* C11: after a successful dump_types, for two accepted named structs a and b
\* that refer to each other only through pointers, both are defined, and the
\* one defined second has a forward declaration before either definition.
C11_MutualPointers ==
    result = "ok" =>
        \A ab \in MutualPtrs :
            /\ DefAt(ab[1]) # {} /\ DefAt(ab[2]) # {}
            /\ Before(DefAt(ab[1]), DefAt(ab[2]))
                 => Before(FwdAt(ab[2]), DefAt(ab[1]) \cup DefAt(ab[2]))

\* C11: a run that ended well on two such structs, with a forward declaration
\* of the one defined second and none of the one defined first.
C11_Witness ==
    /\ result = "ok"
    /\ \E ab \in MutualPtrs :
          /\ Before(DefAt(ab[1]), DefAt(ab[2]))
          /\ Before(FwdAt(ab[2]), DefAt(ab[1]))
          /\ FwdAt(ab[1]) = {}

-----------------------------------------------------------------------------
(* C12 *)

\* The process has not died: dump_types is running or has returned.
Alive == result \notin {"stack_overflow", "div_by_zero", "diverged"}

\* The sites that write a declaration at top level.
DeclSites == DefSites \cup {"fwd"}

\* C12, as stated: as long as the process lives, every forward declaration
\* or definition written at top level is followed at once by `;` and a blank
\* line, and every `;` and blank line written at top level follows at once a
\* declaration of the same type.
C12_AsStated ==
    Alive =>
        \A i \in 1..Len(out) :
            /\ out[i].site \in DeclSites =>
                 i < Len(out) /\ out[i + 1].site = "term" /\ out[i + 1].id = out[i].id
            /\ out[i].site = "term" =>
                 i > 1 /\ out[i - 1].site \in DeclSites /\ out[i - 1].id = out[i].id

-----------------------------------------------------------------------------
(* C13 *)

\* The types that have been given a name.
Resolved == {id \in DOMAIN btf : state_name[id] # ""}

\* Two types of one namespace with one original name.
SameName(a, b) ==
    /\ a # b
    /\ Namespace(a) = Namespace(b)
    /\ type_by_id(a).name = type_by_id(b).name

\* The version in the name of a resolved type: 1 for the original name, k
\* for the suffix __k.
Version(id) ==
    LET nm == type_by_id(id).name
        ks == {k \in 2..(2 * type_cnt) : state_name[id] = nm \o "__" \o ToString(k)}
    IN  IF state_name[id] = nm THEN 1
        ELSE IF ks = {} THEN 0
        ELSE CHOOSE k \in ks : TRUE

\* Where in the output the first top-level declaration of id is.
DeclAt(id) == {i \in 1..Len(out) : out[i].site \in DeclSites /\ out[i].id = id}

\* C13, as stated: among the resolved types of one namespace with one
\* original name, a type with a higher id never has a lower version than one
\* with a lower id, and the one with the lowest id has the original name.
C13_AsStated ==
    \A a \in Resolved : \A b \in Resolved :
        (SameName(a, b) /\ a < b) =>
            /\ Version(a) <= Version(b)
            /\ (\A c \in Resolved : SameName(a, c) => a < c) => Version(a) = 1

\* C13: among the resolved types of one namespace with one original name,
\* the versions follow the order in which the types are first written to the
\* output: the one declared or defined earlier has the lower version.
C13_EmissionOrder ==
    \A a \in Resolved : \A b \in Resolved :
        SameName(a, b) =>
            /\ DeclAt(a) # {} /\ Version(a) >= 1
            /\ Before(DeclAt(a), DeclAt(b)) => Version(a) < Version(b)

\* C13: the type with the higher id is written first and has the original
\* name, the type with the lower id has the suffix.
C13_Witness ==
    \E a \in Resolved : \E b \in Resolved :
        /\ SameName(a, b) /\ a < b
        /\ Before(DeclAt(b), DeclAt(a))
        /\ Version(b) = 1 /\ Version(a) = 2

-----------------------------------------------------------------------------
(* C14 *)

\* C14: no step of the ordering pass changes the output, emit_state,
\* fwd_emitted, the resolved names or the version counters, and when
\* dump_types ends with the unsatisfiable-cycle error the output is empty.
C14_OrderingFrame ==
    [][/\ pc = "order" =>
            UNCHANGED <<out, emit_state, fwd_emitted, state_name, names>>
       /\ result' = "unsatisfiable_cycle" => out' = <<>>]_vars

\* C14: the ordering pass has pushed a type and then failed on a cycle, with
\* nothing written.
C14_Witness ==
    /\ result = "unsatisfiable_cycle"
    /\ order # <<>>
    /\ out = <<>>
    /\ \A id \in DOMAIN btf : emit_state[id] = "NotEmitted" /\ state_name[id] = ""

-----------------------------------------------------------------------------
(* C15 *)

\* r is on a cycle of by-value references through the named struct or union x.
OnByValueCycle(r, x) ==
    /\ x \in Composites \cap NamedDefs
    /\ Embeds(x, x)
    /\ r = x \/ (Embeds(r, x) /\ Embeds(x, r))

\* C15, as stated: if the first type the filter accepts is on a cycle of
\* by-value references through a named struct or union, dump_types ends with
\* the unsatisfiable-cycle error.
C15_AsStated ==
    (pc = "done" /\ Roots # {} /\ \E x \in DOMAIN btf : OnByValueCycle(SetMin(Roots), x))
        => result = "unsatisfiable_cycle"

-----------------------------------------------------------------------------
(* C16 *)

\* The anonymous structs and unions that are on a cycle, with pointers on it
\* or not, that passes through no named struct or union.
AnonCyclic ==
    {x \in Composites \ NamedDefs :
        x \in Closure(Refs(x), DOMAIN btf \ (Composites \cap NamedDefs))}

\* C16, as stated: if the ordering pass has entered an anonymous struct or
\* union that is on a cycle through no named struct or union, dump_types ends
\* with the unsatisfiable-cycle error.
C16_AsStated ==
    (pc = "done" /\ \E x \in AnonCyclic : order_state[x] # "NotOrdered")
        => result = "unsatisfiable_cycle"

-----------------------------------------------------------------------------
(* C17 *)

\* The forward pass is processing the definition of the named struct or
\* union x, and the references it is following from the members of x pass
\* through no typedef.
InDefOf(x) ==
    /\ InCall("emit_type_fwds")
    /\ stack[1].id = x /\ stack[1].flag
    /\ x \in Composites \cap NamedDefs
    /\ \A k \in 2..Len(stack) : type_by_id(stack[k].id).kind # "Typedef"

\* C17: while the forward pass processes the definition of a named struct or
\* union X and follows references from its members through no typedef, no
\* step writes a forward declaration of X or sets fwd_emitted of X.
C17_NoSelfForward ==
    [][\A x \in DOMAIN btf :
          InDefOf(x) => /\ fwd_emitted'[x] = fwd_emitted[x]
                        /\ FwdAt(x)' = FwdAt(x)]_vars

\* C17: the forward pass, processing the definition of X, has come back to X
\* from inside an anonymous struct or union nested in X, and X has no forward
\* declaration.
C17_Witness ==
    \E x \in DOMAIN btf :
        /\ InDefOf(x)
        /\ Len(stack) > 2
        /\ stack[Len(stack)].id = x
        /\ stack[Len(stack)].cont_id = x
        /\ \E k \in 2..Len(stack) : stack[k].id \in Composites \ NamedDefs
        /\ ~fwd_emitted[x]

-----------------------------------------------------------------------------
(* The calls of the name resolver (SpecResolve).                           *)

\* The call the step has made, when it has made one.
LastCall == out'[Len(out')]

CallMade(site) == Len(out') = Len(out) + 1 /\ LastCall.site = site

\* The calls of site on id made before the state.
Earlier(site, id) == {i \in 1..Len(out) : out[i].site = site /\ out[i].id = id}

VersionOf(ns, key) == IF key \in DOMAIN ns THEN ns[key] ELSE 0

\* The types resolve_name gives a name to.
Nameable(id) == NamedKind(type_by_id(id).kind) # "None" /\ type_by_id(id).name # ""

NameKey(id) == <<NamedKind(type_by_id(id).kind), type_by_id(id).name>>

\* C18: every call of resolve_name(id) returns what the first call for id
\* returned; a call that is not the first changes no counter, the first call
\* for a named id (no enumerator of id having been resolved before) adds one
\* to the counter of (namespace, original name) and changes no other; a call
\* on an unnamed entity returns the empty string and changes no counter.
C18_Memoized ==
    [][CallMade("resolve_name") =>
         /\ Earlier("resolve_name", LastCall.id) # {} =>
               /\ LastCall.text = out[SetMin(Earlier("resolve_name", LastCall.id))].text
               /\ names' = names
         /\ (/\ Nameable(LastCall.id)
             /\ Earlier("resolve_name", LastCall.id) = {}
             /\ Earlier("resolve_enum_val_name", LastCall.id) = {}) =>
               /\ VersionOf(names', NameKey(LastCall.id)) = VersionOf(names, NameKey(LastCall.id)) + 1
               /\ \A k \in DOMAIN names' \ {NameKey(LastCall.id)} :
                     k \in DOMAIN names /\ names'[k] = names[k]
         /\ type_by_id(LastCall.id).name = "" =>
               /\ LastCall.text = ""
               /\ names' = names]_vars

\* A named type is resolved, a second type takes the next version of the
\* same name, and the first is resolved again to the name it had.
C18_Witness ==
    /\ pc = "resolve"
    /\ Len(out) = 3
    /\ \A i \in 1..3 : out[i].site = "resolve_name"
    /\ out[1].id = out[3].id
    /\ out[2].id # out[1].id
    /\ NameKey(out[1].id) = NameKey(out[2].id)
    /\ out[1].text = "foo"
    /\ out[2].text = "foo__2"
    /\ out[3].text = "foo"

\* The enumerator whose name the step has resolved.
LastEnumerator == type_by_id(LastCall.id).values[order'[Len(order')]].name

\* The enumerator the i-th call was made on.
EnumeratorAt(i) == type_by_id(out[i].id).values[order[i]].name

\* The calls made before the state that took a version of the name nm among
\* the typedefs: the calls of resolve_enum_val_name on an enumerator nm and,
\* for every typedef nm, its first call of resolve_name.
TypedefVersions(nm) ==
    Cardinality({i \in 1..Len(out) :
                    /\ out[i].site = "resolve_enum_val_name"
                    /\ EnumeratorAt(i) = nm})
    + Cardinality({id \in DOMAIN btf :
                    /\ type_by_id(id).kind = "Typedef"
                    /\ type_by_id(id).name = nm
                    /\ Earlier("resolve_name", id) # {}})

\* C19: resolve_enum_val_name adds one to the counter of (Typedef,
\* enumerator name) on every call; the enumerator keeps its name when the
\* version is 1, becomes <enumerator>__<resolved name of the enum> when the
\* enum has a tag and <enumerator>__<version> when it has none; the counter
\* is the one the typedefs of that name are numbered by.
C19_EnumValName ==
    [][/\ CallMade("resolve_enum_val_name") =>
            /\ VersionOf(names', <<"Typedef", LastEnumerator>>)
                  = VersionOf(names, <<"Typedef", LastEnumerator>>) + 1
            /\ VersionOf(names', <<"Typedef", LastEnumerator>>)
                  = TypedefVersions(LastEnumerator) + 1
            /\ LastCall.text =
                  IF VersionOf(names', <<"Typedef", LastEnumerator>>) = 1
                  THEN LastEnumerator
                  ELSE IF type_by_id(LastCall.id).name # ""
                  THEN LastEnumerator \o "__" \o state_name'[LastCall.id]
                  ELSE LastEnumerator \o "__"
                          \o ToString(VersionOf(names', <<"Typedef", LastEnumerator>>))
       /\ (/\ CallMade("resolve_name")
           /\ type_by_id(LastCall.id).kind = "Typedef"
           /\ Earlier("resolve_name", LastCall.id) = {}) =>
            VersionOf(names', NameKey(LastCall.id))
               = TypedefVersions(type_by_id(LastCall.id).name) + 1]_vars

\* An enumerator of an anonymous enum, one of a tagged enum and a typedef,
\* all called foo, have taken three versions of the name.
C19_Witness ==
    /\ pc = "resolve"
    /\ Len(out) = 3
    /\ out[1].site = "resolve_enum_val_name"
    /\ out[2].site = "resolve_enum_val_name"
    /\ type_by_id(out[2].id).name = "foo"
    /\ out[2].text = "foo__foo"
    /\ out[3].site = "resolve_name"
    /\ type_by_id(out[3].id).kind = "Typedef"
    /\ out[3].text = "foo__3"

-----------------------------------------------------------------------------
(* order_type on a pointer.                                                *)

\* The top frame is order_type on a pointer, about to call (at = "start")
\* or with its callee back (at = "tail").
AtPtr(at) ==
    /\ InCall("order_type")
    /\ type_by_id(stack[Len(stack)].id).kind = "Ptr"
    /\ stack[Len(stack)].pc = at

PtrTarget == type_by_id(stack[Len(stack)].id).type_id

\* The step returns from the top frame to its caller.
Returns == result' = "running" /\ stack' = SubSeq(stack, 1, Len(stack) - 1)

\* The step calls from the top frame.
Calls == result' = "running" /\ Len(stack') = Len(stack) + 1

\* C20 as stated: order_type on a pointer returns false to its caller,
\* whatever the call on the target returned.
C20_AsStated == [][AtPtr("tail") /\ Returns => ret' = FALSE]_vars

\* C20: order_type on a pointer calls order_type on the target with has_ptr
\* = true and returns to its caller what that call returned: true when the
\* target is an enum, a fwd, an anonymous composite or any defining type
\* that the call leaves Ordered, false when it is a defining type that the
\* call does not leave Ordered.
C20_TailReturn ==
    [][/\ AtPtr("start") /\ Calls =>
            /\ stack'[Len(stack')].fn = "order_type"
            /\ stack'[Len(stack')].id = PtrTarget
            /\ stack'[Len(stack')].flag = TRUE
       /\ AtPtr("tail") =>
            /\ Returns
            /\ ret' = ret
            /\ UNCHANGED <<order, order_state>>
            /\ type_by_id(PtrTarget).kind \in {"Enum", "Fwd"} => ret' = TRUE
            /\ (type_by_id(PtrTarget).kind \in {"Struct", "Union"}
                   /\ type_by_id(PtrTarget).name = "") => ret' = TRUE
            /\ is_def(PtrTarget) => (ret' = (order_state'[PtrTarget] = "Ordered"))]_vars

\* The call on the target of a pointer has come back with true, and the
\* pointer is held by a caller that did not come through a pointer.
C20_Witness ==
    /\ AtPtr("tail")
    /\ ~stack[Len(stack)].flag
    /\ Len(stack) > 1
    /\ type_by_id(PtrTarget).kind \in {"Enum", "Fwd"}
    /\ ret = TRUE

-----------------------------------------------------------------------------
(* order_type on a typedef and on a named struct or union behind a         *)
(* pointer.                                                                *)

TopFrame == stack[Len(stack)]

\* The top frame is order_type on a type of a kind of K, at the place at.
OrderTypeAt(K, at) ==
    /\ InCall("order_type")
    /\ type_by_id(TopFrame.id).kind \in K
    /\ TopFrame.pc = at

\* C21: order_type on a NotOrdered typedef calls order_type on its target
\* with the has_ptr it was given; when the call is back and has_ptr is false
\* or the call returned true, it appends the typedef at the end of the order,
\* marks it Ordered and returns true; otherwise the typedef is NotOrdered,
\* nothing is appended and it returns false.
C21_TypedefBranch ==
    [][/\ (OrderTypeAt({"Typedef"}, "start") /\ order_state[TopFrame.id] = "NotOrdered"
              /\ result' = "running") =>
            /\ Calls
            /\ stack'[Len(stack')].fn = "order_type"
            /\ stack'[Len(stack')].id = type_by_id(TopFrame.id).type_id
            /\ stack'[Len(stack')].flag = TopFrame.flag
            /\ UNCHANGED <<order, order_state>>
       /\ OrderTypeAt({"Typedef"}, "target") =>
            /\ Returns
            /\ IF ~TopFrame.flag \/ ret
               THEN /\ order' = Append(order, TopFrame.id)
                    /\ order_state' = [order_state EXCEPT ![TopFrame.id] = "Ordered"]
                    /\ ret' = TRUE
               ELSE /\ order' = order
                    /\ order_state' = order_state
                    /\ order_state'[TopFrame.id] = "NotOrdered"
                    /\ \A i \in 1..Len(order') : order'[i] # TopFrame.id
                    /\ ret' = FALSE]_vars

\* The call on the target of a typedef is back with false and the typedef
\* was not reached through a pointer, after the target call has appended
\* nothing or something.
C21_Witness ==
    /\ OrderTypeAt({"Typedef"}, "target")
    /\ ~TopFrame.flag
    /\ ret = FALSE
    /\ Len(stack) > 1

\* C22: order_type with has_ptr = true on a struct or union that has a tag
\* and is NotOrdered, or is being ordered (a cycle broken by the pointer),
\* returns false at once: no member is visited, no order_state and nothing
\* of the order list or of the rest of the dumper's state changes.
C22_PointedNamedComposite ==
    [][(/\ OrderTypeAt({"Struct", "Union"}, "start")
        /\ TopFrame.flag
        /\ type_by_id(TopFrame.id).name # ""
        /\ order_state[TopFrame.id] \in {"NotOrdered", "Ordering"}) =>
          /\ Returns
          /\ ret' = FALSE
          /\ UNCHANGED <<order, order_state, emit_state, fwd_emitted, state_name,
                         names, out>>]_vars

\* A struct with a tag is reached again, through a pointer, from its own
\* members.
C22_Witness ==
    /\ OrderTypeAt({"Struct", "Union"}, "start")
    /\ TopFrame.flag
    /\ type_by_id(TopFrame.id).name # ""
    /\ order_state[TopFrame.id] = "Ordering"
    /\ type_by_id(TopFrame.id).members # <<>>

-----------------------------------------------------------------------------
(* The padding bitfields (SpecPad).                                        *)

\* The width in bits of a type a padding bitfield is declared with.
PadWidth(ty) ==
    CASE ty = "long" -> ptr_sz * 8
      [] ty = "int" -> 32
      [] ty = "short" -> 16
      [] ty = "char" -> 8

\* The types emit_bit_padding chooses from: long only where it is wider
\* than int.
PadTypes == {"char", "short", "int"} \cup (IF ptr_sz * 8 > 32 THEN {"long"} ELSE {})

\* C23 as stated: every padding bitfield is declared with the widest of
\* long, int, short and char whose width is at most the gap that remains
\* (a gap narrower than a char left aside).
C23_AsStated ==
    \A i \in 1..Len(out) :
        (\E ty \in {"long", "int", "short", "char"} : PadWidth(ty) <= order[i]) =>
            /\ PadWidth(out[i].site) <= order[i]
            /\ \A ty \in {"long", "int", "short", "char"} :
                  PadWidth(ty) <= order[i] => PadWidth(ty) <= PadWidth(out[i].site)

\* C23: every padding bitfield is declared with the narrowest of char,
\* short, int and (where a pointer is wider than 32 bits) long that is at
\* least as wide as the gap that remains, and with the widest of them when
\* the gap is wider than them all: the type may be wider than the gap.
C23_NarrowestCover ==
    \A i \in 1..Len(out) :
        /\ out[i].site \in PadTypes
        /\ IF \E ty \in PadTypes : PadWidth(ty) >= order[i]
           THEN /\ PadWidth(out[i].site) >= order[i]
                /\ \A ty \in PadTypes :
                      PadWidth(ty) >= order[i] => PadWidth(ty) >= PadWidth(out[i].site)
           ELSE \A ty \in PadTypes : PadWidth(ty) <= PadWidth(out[i].site)

\* A gap of 17 to 31 bits has been padded with an int bitfield.
C23_Witness ==
    /\ pc = "pad_done"
    /\ Len(out) >= 1
    /\ \E i \in 1..Len(out) : out[i].site = "int" /\ order[i] > 16 /\ order[i] < 32

RECURSIVE SumWidths(_)
SumWidths(n) == IF n = 0 THEN 0 ELSE SumWidths(n - 1) + out[n].id

RECURSIVE Lines(_)
Lines(n) == IF n = 0 THEN "" ELSE Lines(n - 1) \o out[n].text

\* C24: for a gap that is not skipped the loop of emit_bit_padding ends
\* (the gap that remains shrinks at every iteration), the subtraction never
\* goes below zero, every bitfield is as wide as the remainder of the gap
\* by the width of its type, or as the type when that is zero, at least 1
\* bit and at most the gap that remains, and at the end the widths add up to
\* member.bit_offset - offset; the lines are the ones emit_bit_padding
\* prints.
C24_PaddingSum ==
    /\ result # "sub_overflow"
    /\ \A i \in 1..Len(out) :
          /\ out[i].id = IF order[i] % PadWidth(out[i].site) # 0
                         THEN order[i] % PadWidth(out[i].site)
                         ELSE PadWidth(out[i].site)
          /\ out[i].id >= 1
          /\ out[i].id <= order[i]
          /\ order[i] <= stack[1].m.bit_offset - stack[1].offset
          /\ i > 1 => order[i] = order[i - 1] - out[i - 1].id
    /\ pc = "pad_loop" => loop_id + SumWidths(Len(out)) = stack[1].m.bit_offset - stack[1].offset
    /\ pc = "pad_done" =>
          /\ loop_id = 0
          /\ SumWidths(Len(out)) = stack[1].m.bit_offset - stack[1].offset
          /\ Lines(Len(out)) = emit_bit_padding(Writer(state_name, names), stack[1].offset,
                                                stack[1].m, stack[1].packed,
                                                stack[1].lvl).txt
    /\ pc = "pad_skipped" => out = <<>>

\* A gap of more than a long has been padded with several bitfields.
C24_Witness ==
    /\ pc = "pad_done"
    /\ result = "running"
    /\ Len(out) >= 2
    /\ stack[1].m.bit_offset - stack[1].offset > 64
    /\ out[1].id < PadWidth(out[1].site)

-----------------------------------------------------------------------------
(* is_struct_packed.                                                       *)

Structs == {id \in DOMAIN btf : type_by_id(id).kind = "Struct"}

\* A non-bitfield member of t that is not at a multiple of its alignment.
Misaligned(t) ==
    \E i \in 1..Len(t.members) :
        /\ t.members[i].bit_size = 0
        /\ get_align_of(t.members[i].type_id) > 0
        /\ t.members[i].bit_offset % (8 * get_align_of(t.members[i].type_id)) # 0

\* The text ends with the attribute emit_struct_def prints for a packed
\* struct.
EndsPacked(txt) ==
    /\ Len(txt) >= Len(" __attribute__((packed))")
    /\ SubSeq(txt, Len(txt) - Len(" __attribute__((packed))") + 1, Len(txt))
          = " __attribute__((packed))"

\* C25 as stated: no run of dump_types dies of a division by zero in
\* is_struct_packed, and a struct is defined as packed exactly when its size
\* is not a multiple of its alignment or a non-bitfield member is not at a
\* multiple of 8 times the alignment of its type.
C25_AsStated ==
    /\ result # "div_by_zero"
    /\ \A i \in 1..Len(out) :
          out[i].site = "struct_def" =>
             (EndsPacked(out[i].text)
                <=> \/ type_by_id(out[i].id).sz % get_align_of(out[i].id) # 0
                    \/ Misaligned(type_by_id(out[i].id)))

-----------------------------------------------------------------------------
(* Debug traces.                                                           *)

\* C26 as stated: with verbose off, nothing of the output is a debug trace:
\* neither a trace line of dump_types, emit_type_fwds or emit_type_def nor
\* the warning about an unexpected kind in a declarator chain.
C26_AsStated ==
    ~verbose =>
        \A i \in 1..Len(out) :
            /\ out[i].site # "verbose"
            /\ ~Contains(out[i].text, "!@#! UNEXPECT")

-----------------------------------------------------------------------------
(* The emission pass.                                                      *)

\* C27: once the ordering pass has succeeded the emission pass returns no
\* error: emit_type_fwds never returns the anonymous struct/union loop error
\* and emit_type_def never returns the `unexpected emit_type_def loop` or
\* `unexpected definition` error.
C27_EmissionNeverFails ==
    result \notin {"anonymous_loop", "emit_type_def_loop", "unexpected_definition"}

\* The emission pass has ended for a graph where a struct with a tag holds
\* an anonymous struct or union that points back to it: the struct is met
\* again while it is being emitted.
C27_Witness ==
    /\ result = "ok"
    /\ out # <<>>
    /\ \E a, p, x \in DOMAIN btf :
          /\ type_by_id(a).kind \in {"Struct", "Union"}
          /\ type_by_id(a).name = ""
          /\ order_state[a] = "Ordered"
          /\ type_by_id(p).kind = "Ptr"
          /\ type_by_id(p).type_id = x
          /\ type_by_id(x).kind \in {"Struct", "Union"}
          /\ type_by_id(x).name # ""
          /\ emit_state[x] = "Emitted"
          /\ \E i \in 1..Len(type_by_id(a).members) : type_by_id(a).members[i].type_id = p
          /\ \E i \in 1..Len(type_by_id(x).members) : type_by_id(x).members[i].type_id = a

\* C28: after a successful dump_types no type is being ordered, no type is
\* being emitted and every named definition of the order list is Emitted;
\* between the calls of the emission loop (before emit_type_fwds, and
\* between emit_type_fwds and emit_type_def) no type is being emitted.
C28_NoTransientColour ==
    /\ result = "ok" =>
          /\ \A id \in DOMAIN btf : order_state[id] # "Ordering"
          /\ \A id \in DOMAIN btf : emit_state[id] # "Emitting"
          /\ \A i \in 1..Len(order) :
                is_named_def(order[i]) => emit_state[order[i]] = "Emitted"
    /\ (InDump("emit") \/ InDump("def")) =>
          \A id \in DOMAIN btf : emit_state[id] # "Emitting"

\* The forward pass has gone through a struct behind a pointer and has put
\* it back to NotEmitted, its forward declaration written, and the emission
\* loop is between two iterations.
C28_Witness ==
    /\ InDump("emit")
    /\ loop_id > 1
    /\ \E id \in DOMAIN btf :
          /\ type_by_id(id).kind \in {"Struct", "Union"}
          /\ fwd_emitted[id]
          /\ emit_state[id] = "NotEmitted"

\* C29: in any run of dump_types, for every type id, the forward
\* declaration of the struct or union is written at most once, and its
\* definition (of a struct, union, enum or typedef, by the forward pass or
\* by emit_type_def) is written at most once.
C29_WrittenOnce ==
    \A id \in DOMAIN btf :
        /\ Cardinality(FwdAt(id)) <= 1
        /\ Cardinality(DefAt(id)) <= 1

\* A struct with two pointers to one struct and two to one typedef has been
\* defined: the forward pass has met the struct and the typedef twice, and
\* has written each once.
C29_Witness ==
    /\ result = "ok"
    /\ \E a, c, d \in DOMAIN btf :
          /\ DefAt(a) # {}
          /\ type_by_id(c).kind = "Struct"
          /\ type_by_id(d).kind = "Typedef"
          /\ FwdAt(c) # {}
          /\ DefAt(d) # {}
          /\ \E i, j, k, l \in 1..Len(type_by_id(a).members) :
                /\ i # j
                /\ k # l
                /\ \A n \in {i, j, k, l} :
                      type_by_id(type_by_id(a).members[n].type_id).kind = "Ptr"
                /\ type_by_id(type_by_id(a).members[i].type_id).type_id = c
                /\ type_by_id(type_by_id(a).members[j].type_id).type_id = c
                /\ type_by_id(type_by_id(a).members[k].type_id).type_id = d
                /\ type_by_id(type_by_id(a).members[l].type_id).type_id = d

\* C30: no forward declaration of a struct or union is written once its
\* definition has been written, and once a type is Emitted no step of
\* dump_types writes a forward declaration for it or changes its emit_state
\* or its fwd_emitted.
C30_EmittedIsFinal ==
    [][\A id \in DOMAIN btf :
          /\ (emit_state[id] = "Emitted" \/ DefAt(id) # {}) => FwdAt(id)' = FwdAt(id)
          /\ emit_state[id] = "Emitted" =>
                /\ emit_state'[id] = "Emitted"
                /\ fwd_emitted'[id] = fwd_emitted[id]]_vars

\* The forward pass reaches, from the members of a later definition, a
\* struct or union that has been defined and was never forward-declared.
C30_Witness ==
    /\ InCall("emit_type_fwds")
    /\ TopFrame.pc = "start"
    /\ Len(stack) > 1
    /\ TopFrame.id \in Composites \cap NamedDefs
    /\ emit_state[TopFrame.id] = "Emitted"
    /\ ~fwd_emitted[TopFrame.id]
    /\ DefAt(TopFrame.id) # {}

====
